---- MODULE Spec2Model ----
(***************************************************************************)
(* Model of kmio11/go-table (package tablemap, src/table.go lines 359-830) *)
(* the field resolver getFieldMap, the cell codec setField / formatField,  *)
(* the row codec unmarshalRow / marshalRow and the table codec             *)
(* UnmarshalWithOptions / MarshalWithOptions.                              *)
(*                                                                         *)
(* Strings that are parsed or compared with the nil sentinel (cells) are   *)
(* sequences of one-character strings; tags and header names are only ever *)
(* compared for equality and are TLA+ strings.                             *)
(***************************************************************************)
EXTENDS Integers, Sequences, FiniteSets, TLC

(***************************************************************************)
(* Bounds of the model.                                                    *)
(***************************************************************************)
MaxDepth == 3      \* deepest chain of embedded structs in the Deep* shapes
MaxRecs == 2       \* longest slice handed to MarshalWithOptions
MaxRows == 2       \* most data rows handed to UnmarshalWithOptions
MaxVary == 1       \* fields (cells) of a record (row) that leave the base value

(***************************************************************************)
(* strconv: base-10 parsing and formatting, character by character.        *)
(***************************************************************************)
Digits == <<"0", "1", "2", "3", "4", "5", "6", "7", "8", "9">>

IsDigit(c) == \E d \in 1..10 : Digits[d] = c

DigitVal(c) == (CHOOSE d \in 1..10 : Digits[d] = c) - 1

RECURSIVE DigitsValue(_)
DigitsValue(s) ==
    IF s = <<>> THEN 0
    ELSE 10 * DigitsValue(SubSeq(s, 1, Len(s) - 1)) + DigitVal(s[Len(s)])

ParseFail == [ok |-> FALSE, v |-> 0]

\* strconv.ParseUint(value, 10, 64): digits only, no sign, not empty.
\* (The 64-bit range error needs 20 digits; cells here are shorter.)
ParseUint(s) ==
    IF s = <<>> \/ (\E k \in 1..Len(s) : ~IsDigit(s[k])) THEN ParseFail
    ELSE [ok |-> TRUE, v |-> DigitsValue(s)]

\* strconv.ParseInt(value, 10, 64): optional sign, then digits.
ParseInt(s) ==
    IF s = <<>> THEN ParseFail
    ELSE LET signed == s[1] \in {"+", "-"}
             u == ParseUint(IF signed THEN Tail(s) ELSE s)
         IN  IF ~u.ok THEN ParseFail
             ELSE [ok |-> TRUE, v |-> IF s[1] = "-" THEN 0 - u.v ELSE u.v]

TrueCells == { <<"1">>, <<"t">>, <<"T">>, <<"T", "R", "U", "E">>,
               <<"t", "r", "u", "e">>, <<"T", "r", "u", "e">> }

FalseCells == { <<"0">>, <<"f">>, <<"F">>, <<"F", "A", "L", "S", "E">>,
                <<"f", "a", "l", "s", "e">>, <<"F", "a", "l", "s", "e">> }

\* strconv.ParseBool
ParseBool(s) ==
    IF s \in TrueCells THEN [ok |-> TRUE, v |-> TRUE]
    ELSE IF s \in FalseCells THEN [ok |-> TRUE, v |-> FALSE]
    ELSE [ok |-> FALSE, v |-> FALSE]

RECURSIVE FormatUint(_)
FormatUint(n) ==
    IF n < 10 THEN <<Digits[n + 1]>>
    ELSE FormatUint(n \div 10) \o <<Digits[(n % 10) + 1]>>

FormatInt(n) == IF n < 0 THEN <<"-">> \o FormatUint(0 - n) ELSE FormatUint(n)

FormatBool(b) == IF b THEN <<"t", "r", "u", "e">> ELSE <<"f", "a", "l", "s", "e">>

\* reflect.Value.SetInt / SetUint store the parsed 64-bit number in a field
\* of the field's own width by a plain conversion.
SetIntWidth(kind, x) ==
    IF kind = "int8" THEN ((x + 128) % 256) - 128
    ELSE IF kind = "uint8" THEN x % 256
    ELSE x

(***************************************************************************)
(* Options.                                                                *)
(***************************************************************************)
DefaultNilValue == <<"\\", "N">>

DefaultOptions == [isNil |-> FALSE, NilValue |-> DefaultNilValue]

NilOptions == [isNil |-> TRUE, NilValue |-> <<>>]

OptionsSet ==
    { NilOptions, DefaultOptions,
      [isNil |-> FALSE, NilValue |-> <<"N", "U", "L", "L">>],
      [isNil |-> FALSE, NilValue |-> <<>>] }

\* the Options tried together with a header that is not the shape's own
ForeignHeaderOptions == {DefaultOptions, [isNil |-> FALSE, NilValue |-> <<>>]}

\* (variant: nil Options are replaced by the zero Options, whose NilValue is "")
EffectiveOptionsZero(o) == IF o.isNil THEN [isNil |-> FALSE, NilValue |-> <<>>] ELSE o

\* if opts == nil { opts = DefaultOptions() }
EffectiveOptions(o) == IF o.isNil THEN DefaultOptions ELSE o

(***************************************************************************)
(* Record shapes (reflect.Type of a struct).  A member is a leaf field     *)
(* with a tag and a type, or an anonymous (embedded) struct.               *)
(***************************************************************************)
LeafT(kind, ptr) == [kind |-> kind, ptr |-> ptr, fields |-> <<>>]

Leaf(tag, kind) == [anon |-> FALSE, tag |-> tag, typ |-> LeafT(kind, FALSE)]

PtrLeaf(tag, kind) == [anon |-> FALSE, tag |-> tag, typ |-> LeafT(kind, TRUE)]

Emb(fs) == [anon |-> TRUE, tag |-> "", typ |-> [kind |-> "struct", ptr |-> FALSE, fields |-> fs]]

\* an anonymous member that is a pointer to a struct: not flattened
EmbPtr == [anon |-> TRUE, tag |-> "", typ |-> LeafT("slice", TRUE)]

RECURSIVE Nest(_, _)
Nest(d, fs) == IF d = 0 THEN fs ELSE <<Emb(Nest(d - 1, fs))>>

Inner == <<Leaf("b", "string"), Leaf("c", "string")>>

DeepInner == <<Leaf("x", "string"), Leaf("y", "string")>>

FixedShapes ==
    [ User        |-> <<Leaf("name", "string"), Leaf("age", "int")>>,
      Prim        |-> <<Leaf("s", "string"), Leaf("i", "int"), Leaf("b", "bool")>>,
      NilValueT   |-> <<PtrLeaf("int", "int"), PtrLeaf("str", "string"),
                        PtrLeaf("flag", "bool"), Leaf("normal", "string")>>,
      Codec       |-> <<Leaf("custom", "custom"), Leaf("time", "time"),
                        Leaf("both", "both"), Leaf("cell", "cellonly"),
                        PtrLeaf("custom_ptr", "custom")>>,
      Excluded    |-> <<Leaf("name", "string"), Leaf("", "string"),
                        Leaf("-", "int"), EmbPtr>>,
      Narrow      |-> <<Leaf("i8", "int8"), Leaf("u8", "uint8")>>,
      Other       |-> <<Leaf("l", "slice"), Leaf("n", "string")>>,
      Outer       |-> <<Leaf("a", "string"), Emb(Inner), Leaf("d", "string")>>,
      Override    |-> <<Emb(Inner), Leaf("b", "string"), Leaf("f", "string")>>,
      Duplicate   |-> <<Leaf("same", "string"), Leaf("same", "string")>>,
      Conflict    |-> <<Leaf("name", "string"), Emb(<<Leaf("addr", "string")>>),
                        Leaf("addr", "string")>>,
      Multiple    |-> <<Emb(Inner), Emb(<<Emb(DeepInner), Leaf("z", "string")>>),
                        Leaf("m", "string")>>,
      EmbSkip     |-> <<Emb(Inner), Emb(<<Leaf("c", "string"), Leaf("g", "string")>>)>>,
      DirectFirst |-> <<Leaf("b", "string"), Emb(Inner)>> ]

FixedNames == DOMAIN FixedShapes

\* Families that wrap a struct in d levels of embedding.
DeepShapes ==
    [ Deep       |-> DeepInner,
      DeepExcl   |-> <<Leaf("x", "string"), Leaf("", "string")>>,
      DeepShadow |-> <<Leaf("x", "string"), Leaf("a", "string")>>,
      DeepDup    |-> <<Leaf("x", "string"), Leaf("x", "string")>> ]

DeepNames == DOMAIN DeepShapes

ShapeIds ==
    { [name |-> n, depth |-> 0] : n \in FixedNames }
    \cup { [name |-> n, depth |-> d] : n \in DeepNames, d \in 1..MaxDepth }

\* the members of the struct type with this id
ShapeOf(id) ==
    IF id.name \in FixedNames THEN FixedShapes[id.name]
    ELSE IF id.name = "DeepShadow"
         THEN Nest(id.depth, DeepShapes[id.name]) \o <<Leaf("a", "string")>>
         ELSE Nest(id.depth, DeepShapes[id.name])

(***************************************************************************)
(* Go slices of int (fieldInfo.index): a slice is a window on a backing    *)
(* array of the heap; append writes in place while capacity remains.       *)
(***************************************************************************)
NilSlice == [arr |-> 0, len |-> 0, cap |-> 0]

\* capacity the gc runtime gives a grown []int on a 64-bit build
\* (doubling below 256 elements, rounded up to the allocator's size class)
GrowCap(newLen, oldCap) ==
    LET want == IF newLen > 2 * oldCap THEN newLen ELSE 2 * oldCap
        classes == {1, 2, 3, 4, 6, 8, 10, 12, 14, 16}
    IN  IF \E c \in classes : c >= want
        THEN CHOOSE c \in classes : c >= want /\ \A e \in classes : e >= want => c <= e
        ELSE want

\* the elements a slice shows now
Deref(heap, sl) == IF sl.len = 0 THEN <<>> ELSE SubSeq(heap[sl.arr], 1, sl.len)

\* the sequence s with x as its k-th element
ReplaceAt(s, k, x) == SubSeq(s, 1, k - 1) \o <<x>> \o SubSeq(s, k + 1, Len(s))

\* append(sl, x): result slice and the heap after the call
AppendInt(heap, sl, x) ==
    IF sl.len < sl.cap
    THEN [s |-> [sl EXCEPT !.len = sl.len + 1],
          heap |-> ReplaceAt(heap, sl.arr, ReplaceAt(heap[sl.arr], sl.len + 1, x))]
    ELSE LET c == GrowCap(sl.len + 1, sl.cap)
             arr == Deref(heap, sl) \o <<x>> \o [k \in 1..(c - sl.len - 1) |-> 0]
         IN  [s |-> [arr |-> Len(heap) + 1, len |-> sl.len + 1, cap |-> c],
              heap |-> Append(heap, arr)]

(***************************************************************************)
(* getFieldMap.                                                            *)
(***************************************************************************)
ignore == "-"

\* tag == "" || tag == ignore
IsSkippedTag(tag) == tag = "" \/ tag = ignore

\* fieldMap.findTagIndex: 1-based position of tag in orderedTags, 0 if absent
findTagIndex(orderedTags, tag) ==
    IF \E k \in 1..Len(orderedTags) : orderedTags[k] = tag
    THEN CHOOSE k \in 1..Len(orderedTags) :
            orderedTags[k] = tag /\ \A j \in 1..(k - 1) : orderedTags[j] # tag
    ELSE 0

\* fieldMap.hasTag
hasTag(orderedTags, tag) == \E k \in 1..Len(orderedTags) : orderedTags[k] = tag

RemoveAt(s, k) == SubSeq(s, 1, k - 1) \o SubSeq(s, k + 1, Len(s))

\* (variant: the tag goes to the front of the order, not to the end)
UpdateOrderedTagsFront(orderedTags, tag) ==
    LET idx == findTagIndex(orderedTags, tag)
    IN  <<tag>> \o (IF idx >= 1 THEN RemoveAt(orderedTags, idx) ELSE orderedTags)

\* (variant: the tag is appended and its old slot is kept)
UpdateOrderedTagsKeepOld(orderedTags, tag) == Append(orderedTags, tag)

\* lines 548-553: drop the tag's old slot, then append the tag
UpdateOrderedTags(orderedTags, tag) ==
    LET existingIdx == findTagIndex(orderedTags, tag)
    IN  Append(IF existingIdx >= 1 THEN RemoveAt(orderedTags, existingIdx)
               ELSE orderedTags, tag)

\* result.fields[tag] = fieldInfo{...}
PutField(fields, tag, info) ==
    [t \in DOMAIN fields \cup {tag} |-> IF t = tag THEN info ELSE fields[t]]

EmptyMap == [t \in {} |-> 0]

\* state of getFieldMap before addFields(t, nil, false)
InitWalk(id) ==
    [ fields |-> EmptyMap, orderedTags |-> <<>>, pos |-> 0, heap |-> <<>>,
      stack |-> << [t |-> ShapeOf(id), index |-> NilSlice, isEmbedded |-> FALSE, i |-> 0] >> ]

\* (variant: a mapped tag is never taken over, by a direct field either)
AddLeafSkipAlways(w, fr, field, currIndex) ==
    IF hasTag(w.orderedTags, field.tag) THEN w
    ELSE [w EXCEPT
            !.fields = PutField(w.fields, field.tag,
                          [index |-> currIndex, tag |-> field.tag, position |-> w.pos]),
            !.orderedTags = UpdateOrderedTags(w.orderedTags, field.tag),
            !.pos = w.pos + 1]

\* a leaf field that is mapped: lines 536-554
AddLeaf(w, fr, field, currIndex) ==
    IF fr.isEmbedded /\ hasTag(w.orderedTags, field.tag) THEN w
    ELSE [w EXCEPT
            !.fields = PutField(w.fields, field.tag,
                          [index |-> currIndex, tag |-> field.tag, position |-> w.pos]),
            !.orderedTags = UpdateOrderedTags(w.orderedTags, field.tag),
            !.pos = w.pos + 1]

\* one iteration of the loop of addFields in the innermost active call
\* (or the return of that call when its loop is over)
WalkStep(w) ==
    LET top == Len(w.stack)
        fr == w.stack[top]
    IN  IF fr.i >= Len(fr.t)
        THEN [w EXCEPT !.stack = SubSeq(w.stack, 1, top - 1)]
        ELSE LET field == fr.t[fr.i + 1]
                 ap == AppendInt(w.heap, fr.index, fr.i)
                 w1 == [w EXCEPT !.heap = ap.heap, !.stack[top].i = fr.i + 1]
             IN  IF field.anon /\ field.typ.kind = "struct"
                 THEN [w1 EXCEPT !.stack = Append(w1.stack,
                          [t |-> field.typ.fields, index |-> ap.s,
                           isEmbedded |-> TRUE, i |-> 0])]
                 ELSE IF IsSkippedTag(field.tag) THEN w1
                 ELSE AddLeaf(w1, fr, field, ap.s)

RECURSIVE RunWalk(_)
RunWalk(w) == IF w.stack = <<>> THEN w ELSE RunWalk(WalkStep(w))

\* the fieldMap getFieldMap returns, access paths read through the heap
FieldMapOf(w) ==
    [ fields |-> [t \in DOMAIN w.fields |-> Deref(w.heap, w.fields[t].index)],
      orderedTags |-> w.orderedTags ]

getFieldMap(id) == FieldMapOf(RunWalk(InitWalk(id)))

\* (variant: addFields starts from a path slice left by the earlier call,
\* not from nil)
getFieldMapAfterLeftover(id, heap) ==
    LET w == InitWalk(id)
        left == IF heap = <<>> THEN NilSlice
                ELSE [arr |-> Len(heap), len |-> 1, cap |-> Len(heap[Len(heap)])]
    IN  RunWalk([w EXCEPT !.heap = heap, !.stack[1].index = left])

\* getFieldMap(t) run to its end when the heap holds what earlier calls
\* allocated
getFieldMapAfter(id, heap) == RunWalk([InitWalk(id) EXCEPT !.heap = heap])

(***************************************************************************)
(* Field values (reflect.Value of a leaf).  Every value is a record of the *)
(* same form: nil (a nil pointer), i (integer kinds, and the instant of a  *)
(* TimeWrapper), s (string, CustomType.value, elements of a slice), b.     *)
(*                                                                         *)
(* Kinds: string, int, int8, uint8, bool; slice ([]string, a kind with no  *)
(* built-in conversion); and user types that implement the codec           *)
(* interfaces: custom (CustomType of the tests: cell codec), time          *)
(* (TimeWrapper of the tests: text codec), both (an int type implementing  *)
(* the cell and the text codec), cellonly (an int type implementing only   *)
(* the cell codec).                                                        *)
(***************************************************************************)
ZeroVal(typ) == [nil |-> typ.ptr, i |-> 0, s |-> <<>>, b |-> FALSE]

Elem(typ) == [typ EXCEPT !.ptr = FALSE]

\* the type (through its pointer) implements CellMarshaler / CellUnmarshaler
ImplementsCell(kind) == kind \in {"custom", "both", "cellonly"}

\* the type implements encoding.TextMarshaler / TextUnmarshaler
ImplementsText(kind) == kind \in {"time", "both"}

IsIntKind(kind) == kind \in {"int", "int8", "both", "cellonly"}

CustomPrefix == <<"c", "u", "s", "t", "o", "m", ":">>

HasPrefix(s, p) == Len(s) >= Len(p) /\ SubSeq(s, 1, Len(p)) = p

\* MarshalCell of the user types: CustomType never fails; the int types
\* fail on a negative number
MarshalCell(kind, val) ==
    IF kind = "custom" THEN [ok |-> TRUE, cell |-> CustomPrefix \o val.s]
    ELSE IF val.i < 0 THEN [ok |-> FALSE, cell |-> <<>>]
    ELSE [ok |-> TRUE, cell |-> <<"c">> \o FormatUint(val.i)]

\* MarshalText of the user types: TimeWrapper formats its instant (here
\* "T" and the instant's number); the int type fails on -1
MarshalText(kind, val) ==
    IF kind = "time" THEN [ok |-> TRUE, cell |-> <<"T">> \o FormatUint(val.i)]
    ELSE IF val.i = 0 - 1 THEN [ok |-> FALSE, cell |-> <<>>]
    ELSE [ok |-> TRUE, cell |-> <<"t">> \o FormatInt(val.i)]

\* UnmarshalCell: CustomType stores what follows "custom:" when something
\* follows it and otherwise leaves the value alone, never failing; the int
\* types want "c" and digits
UnmarshalCell(kind, cur, s) ==
    IF kind = "custom"
    THEN [ok |-> TRUE,
          val |-> IF Len(s) > 7 /\ HasPrefix(s, CustomPrefix)
                  THEN [cur EXCEPT !.s = SubSeq(s, 8, Len(s))] ELSE cur]
    ELSE LET u == IF HasPrefix(s, <<"c">>) THEN ParseUint(Tail(s)) ELSE ParseFail
         IN  [ok |-> u.ok, val |-> IF u.ok THEN [cur EXCEPT !.i = u.v] ELSE cur]

\* UnmarshalText: TimeWrapper parses its text form or fails; the int type
\* wants "t" and a number
UnmarshalText(kind, cur, s) ==
    LET u == IF kind = "time"
             THEN (IF HasPrefix(s, <<"T">>) THEN ParseUint(Tail(s)) ELSE ParseFail)
             ELSE (IF HasPrefix(s, <<"t">>) THEN ParseInt(Tail(s)) ELSE ParseFail)
    IN  [ok |-> u.ok, val |-> IF u.ok THEN [cur EXCEPT !.i = u.v] ELSE cur]

RECURSIVE JoinSpace(_)
JoinSpace(s) ==
    IF Len(s) <= 1 THEN s ELSE <<s[1], " ">> \o JoinSpace(Tail(s))

\* fmt.Sprintf("%v", field.Interface()) for the kinds that reach it
Sprintf(kind, val) ==
    IF kind = "slice" THEN <<"[">> \o JoinSpace(val.s) \o <<"]">>
    ELSE IF kind = "custom" THEN <<"{">> \o val.s \o <<"}">>
    ELSE <<"{">> \o FormatUint(val.i) \o <<"}">>

\* step 3 of formatField: the switch on field.Kind()
FormatBuiltin(kind, val) ==
    IF kind = "string" THEN [cell |-> val.s, call |-> "builtin"]
    ELSE IF IsIntKind(kind) THEN [cell |-> FormatInt(val.i), call |-> "builtin"]
    ELSE IF kind = "uint8" THEN [cell |-> FormatUint(val.i), call |-> "builtin"]
    ELSE IF kind = "bool" THEN [cell |-> FormatBool(val.b), call |-> "builtin"]
    ELSE [cell |-> Sprintf(kind, val), call |-> "Sprintf"]

\* (variant: after a failed cell codec the text codec is passed over)
FormatValueSkipText(kind, val) ==
    LET mc == MarshalCell(kind, val)
        mt == MarshalText(kind, val)
        fb == FormatBuiltin(kind, val)
    IN  IF ImplementsCell(kind)
        THEN IF mc.ok THEN [cell |-> mc.cell, calls |-> <<"MarshalCell">>]
             ELSE [cell |-> fb.cell, calls |-> <<"MarshalCell", fb.call>>]
        ELSE IF ImplementsText(kind) /\ mt.ok
             THEN [cell |-> mt.cell, calls |-> <<"MarshalText">>]
        ELSE [cell |-> fb.cell,
              calls |-> (IF ImplementsText(kind) THEN <<"MarshalText">> ELSE <<>>)
                        \o <<fb.call>>]

\* steps 1 to 3 of formatField on a non-pointer value: the cell and the
\* conversions invoked, in order
FormatValue(kind, val) ==
    LET mc == MarshalCell(kind, val)
        mt == MarshalText(kind, val)
        c1 == IF ImplementsCell(kind) THEN <<"MarshalCell">> ELSE <<>>
        c2 == IF ImplementsText(kind) THEN <<"MarshalText">> ELSE <<>>
        fb == FormatBuiltin(kind, val)
    IN  IF ImplementsCell(kind) /\ mc.ok THEN [cell |-> mc.cell, calls |-> c1]
        ELSE IF ImplementsText(kind) /\ mt.ok
             THEN [cell |-> mt.cell, calls |-> c1 \o c2]
        ELSE [cell |-> fb.cell, calls |-> c1 \o c2 \o <<fb.call>>]

\* (variant: a nil pointer is always written as the default sentinel)
formatFieldDefaultNil(typ, val, opts) ==
    IF typ.ptr
    THEN IF val.nil THEN [cell |-> DefaultNilValue, calls |-> <<>>]
         ELSE FormatValue(typ.kind, val)
    ELSE FormatValue(typ.kind, val)

\* formatField(field, opts)
formatField(typ, val, opts) ==
    IF typ.ptr
    THEN IF val.nil THEN [cell |-> opts.NilValue, calls |-> <<>>]
         ELSE FormatValue(typ.kind, val)
    ELSE FormatValue(typ.kind, val)

\* (variant: the default case of the switch stores the cell as text)
SetBuiltinDefaultText(kind, cur, value) ==
    IF kind = "string"
    THEN [val |-> [cur EXCEPT !.s = value], err |-> "", call |-> "builtin"]
    ELSE IF IsIntKind(kind)
    THEN LET p == ParseInt(value)
         IN  IF p.ok THEN [val |-> [cur EXCEPT !.i = SetIntWidth(kind, p.v)],
                           err |-> "", call |-> "builtin"]
             ELSE [val |-> cur, err |-> "parse", call |-> "builtin"]
    ELSE IF kind = "uint8"
    THEN LET p == ParseUint(value)
         IN  IF p.ok THEN [val |-> [cur EXCEPT !.i = SetIntWidth(kind, p.v)],
                           err |-> "", call |-> "builtin"]
             ELSE [val |-> cur, err |-> "parse", call |-> "builtin"]
    ELSE IF kind = "bool"
    THEN LET p == ParseBool(value)
         IN  IF p.ok THEN [val |-> [cur EXCEPT !.b = p.v], err |-> "", call |-> "builtin"]
             ELSE [val |-> cur, err |-> "parse", call |-> "builtin"]
    ELSE [val |-> [cur EXCEPT !.s = value], err |-> "", call |-> "builtin"]

\* step 3 of setField: the switch on field.Kind()
SetBuiltin(kind, cur, value) ==
    IF kind = "string"
    THEN [val |-> [cur EXCEPT !.s = value], err |-> "", call |-> "builtin"]
    ELSE IF IsIntKind(kind)
    THEN LET p == ParseInt(value)
         IN  IF p.ok THEN [val |-> [cur EXCEPT !.i = SetIntWidth(kind, p.v)],
                           err |-> "", call |-> "builtin"]
             ELSE [val |-> cur, err |-> "parse", call |-> "builtin"]
    ELSE IF kind = "uint8"
    THEN LET p == ParseUint(value)
         IN  IF p.ok THEN [val |-> [cur EXCEPT !.i = SetIntWidth(kind, p.v)],
                           err |-> "", call |-> "builtin"]
             ELSE [val |-> cur, err |-> "parse", call |-> "builtin"]
    ELSE IF kind = "bool"
    THEN LET p == ParseBool(value)
         IN  IF p.ok THEN [val |-> [cur EXCEPT !.b = p.v], err |-> "", call |-> "builtin"]
             ELSE [val |-> cur, err |-> "parse", call |-> "builtin"]
    ELSE [val |-> cur, err |-> "unsupported field type", call |-> "unsupported"]

\* (variant: a failed cell codec falls through to the text codec, as encode does)
SetValueFallThrough(kind, cur, value) ==
    LET uc == UnmarshalCell(kind, cur, value)
        ut == UnmarshalText(kind, cur, value)
        sb == SetBuiltin(kind, cur, value)
    IN  IF ImplementsCell(kind) /\ (uc.ok \/ ~ImplementsText(kind))
        THEN [val |-> uc.val, err |-> IF uc.ok THEN "" ELSE "codec",
              calls |-> <<"UnmarshalCell">>]
        ELSE IF ImplementsText(kind)
        THEN [val |-> ut.val, err |-> IF ut.ok THEN "" ELSE "codec",
              calls |-> (IF ImplementsCell(kind) THEN <<"UnmarshalCell">> ELSE <<>>)
                        \o <<"UnmarshalText">>]
        ELSE [val |-> sb.val, err |-> sb.err, calls |-> <<sb.call>>]

\* steps 1 to 3 of setField on a non-pointer field
SetValue(kind, cur, value) ==
    IF ImplementsCell(kind)
    THEN LET u == UnmarshalCell(kind, cur, value)
         IN  [val |-> u.val, err |-> IF u.ok THEN "" ELSE "codec",
              calls |-> <<"UnmarshalCell">>]
    ELSE IF ImplementsText(kind)
    THEN LET u == UnmarshalText(kind, cur, value)
         IN  [val |-> u.val, err |-> IF u.ok THEN "" ELSE "codec",
              calls |-> <<"UnmarshalText">>]
    ELSE LET sb == SetBuiltin(kind, cur, value)
         IN  [val |-> sb.val, err |-> sb.err, calls |-> <<sb.call>>]

\* (variant: the cell is compared with the default sentinel)
IsNilCellDefault(value, opts) == value = DefaultNilValue

\* value == opts.NilValue
IsNilCell(value, opts) == value = opts.NilValue

\* (variant: the empty cell of a pointer field is decoded like any other cell)
setFieldEmptyDecoded(typ, cur, value, opts) ==
    IF IsNilCell(value, opts)
    THEN IF typ.ptr THEN [val |-> ZeroVal(typ), err |-> "", calls |-> <<>>]
         ELSE [val |-> cur, err |-> "cannot set nil to non-pointer field", calls |-> <<>>]
    ELSE IF typ.ptr
    THEN SetValue(typ.kind, IF cur.nil THEN ZeroVal(Elem(typ)) ELSE cur, value)
    ELSE SetValue(typ.kind, cur, value)

\* setField(field, value, opts): the field afterwards, the error ("" for
\* nil) and the conversions invoked
setField(typ, cur, value, opts) ==
    IF IsNilCell(value, opts)
    THEN IF typ.ptr THEN [val |-> ZeroVal(typ), err |-> "", calls |-> <<>>]
         ELSE [val |-> cur, err |-> "cannot set nil to non-pointer field", calls |-> <<>>]
    ELSE IF typ.ptr
    THEN IF value = <<>> THEN [val |-> ZeroVal(typ), err |-> "", calls |-> <<>>]
         ELSE SetValue(typ.kind,
                       IF cur.nil THEN ZeroVal(Elem(typ)) ELSE cur, value)
    ELSE SetValue(typ.kind, cur, value)

(***************************************************************************)
(* Records (reflect.Value of a struct): a value for every leaf field,      *)
(* mapped or not, keyed by the field's own index path.                     *)
(***************************************************************************)
IsEmbeddedStruct(m) == m.anon /\ m.typ.kind = "struct"

\* the leaf fields of a struct in declaration order, depth first
RECURSIVE LeafList(_, _)
LeafList(fs, prefix) ==
    IF fs = <<>> THEN <<>>
    ELSE LET m == fs[Len(fs)]
             p == prefix \o <<Len(fs) - 1>>
         IN  LeafList(SubSeq(fs, 1, Len(fs) - 1), prefix)
             \o (IF IsEmbeddedStruct(m) THEN LeafList(m.typ.fields, p) ELSE <<p>>)

LeafPaths(id) == LET l == LeafList(ShapeOf(id), <<>>) IN {l[k] : k \in 1..Len(l)}

\* the member reached by field = field.Field(idx) along a path
RECURSIVE MemberAt(_, _)
MemberAt(fs, path) ==
    IF Len(path) = 1 THEN fs[path[1] + 1]
    ELSE MemberAt(fs[path[1] + 1].typ.fields, Tail(path))

FieldType(id, path) == MemberAt(ShapeOf(id), path).typ

FieldTag(id, path) == MemberAt(ShapeOf(id), path).tag

\* reflect.New(sliceElemType): every field at its zero value
ZeroRec(id) == [p \in LeafPaths(id) |-> ZeroVal(FieldType(id, p))]

(***************************************************************************)
(* newRow, unmarshalRow, marshalRow.  Both row functions also report, per  *)
(* column handled, the field reached, the conversions invoked and the      *)
(* field's value (after the call for decode, as read for encode).          *)
(***************************************************************************)
NoVal == [nil |-> FALSE, i |-> 0, s |-> <<>>, b |-> FALSE]

NilHeader == [isNil |-> TRUE, names |-> <<>>]

Hdr(names) == [isNil |-> FALSE, names |-> names]

\* newRow(structType, header, opts)
newRow(id, header, o) ==
    LET fm == getFieldMap(id)
    IN  [ header |-> IF header.isNil THEN fm.orderedTags ELSE header.names,
          fields |-> fm.fields,
          opts   |-> EffectiveOptions(o) ]

\* the loop of unmarshalRow from column i on; st is the struct so far, the
\* error so far and the columns handled so far
RECURSIVE FillFields(_, _, _, _, _)
\* the struct, the error and the columns handled once setField has returned
\* res for column i, which maps to the field at path
FieldSet(st, i, path, res) ==
    [ rec |-> [st.rec EXCEPT ![path] = res.val],
      err |-> res.err,
      trace |-> Append(st.trace, [col |-> i, mapped |-> TRUE, path |-> path,
                                  calls |-> res.calls, val |-> res.val]) ]

FillFields(id, r, data, st, i) ==
    IF i > Len(data) \/ st.err # "" THEN st
    ELSE IF r.header[i] \in DOMAIN r.fields
    THEN FillFields(id, r, data,
             FieldSet(st, i, r.fields[r.header[i]],
                      setField(FieldType(id, r.fields[r.header[i]]),
                               st.rec[r.fields[r.header[i]]], data[i], r.opts)),
             i + 1)
    ELSE FillFields(id, r, data,
             [st EXCEPT !.trace = Append(st.trace, [col |-> i, mapped |-> FALSE, path |-> <<>>,
                                                    calls |-> <<>>, val |-> NoVal])],
             i + 1)

\* row.unmarshalRow(data, v) on a struct that holds rec
unmarshalRow(id, r, data, rec) ==
    IF Len(data) # Len(r.header)
    THEN [rec |-> rec, err |-> "inconsistent data length", trace |-> <<>>]
    ELSE FillFields(id, r, data, [rec |-> rec, err |-> "", trace |-> <<>>], 1)

\* one cell of marshalRow
MarshalCellAt(id, r, rec, i) ==
    IF r.header[i] \in DOMAIN r.fields
    THEN LET path == r.fields[r.header[i]]
             f == formatField(FieldType(id, path), rec[path], r.opts)
         IN  [cell |-> f.cell, ev |-> [col |-> i, mapped |-> TRUE, path |-> path,
                                       calls |-> f.calls, val |-> rec[path]]]
    ELSE [cell |-> <<>>, ev |-> [col |-> i, mapped |-> FALSE, path |-> <<>>,
                                 calls |-> <<>>, val |-> NoVal]]

\* (variant: the row has a cell per tag of the shape, in the resolved order,
\* whatever the header of the handler is)
marshalRowOrderedTags(id, r, rec) ==
    LET h == [r EXCEPT !.header = getFieldMap(id).orderedTags]
    IN  [ row   |-> [i \in 1..Len(h.header) |-> MarshalCellAt(id, h, rec, i).cell],
          trace |-> [i \in 1..Len(h.header) |-> MarshalCellAt(id, h, rec, i).ev] ]

\* row.marshalRow(v) on a struct that holds rec
marshalRow(id, r, rec) ==
    [ row   |-> [i \in 1..Len(r.header) |-> MarshalCellAt(id, r, rec, i).cell],
      trace |-> [i \in 1..Len(r.header) |-> MarshalCellAt(id, r, rec, i).ev] ]

(***************************************************************************)
(* Inputs: the records handed to MarshalWithOptions and the headers and    *)
(* rows handed to UnmarshalWithOptions.  A record is the base record of    *)
(* its shape (every field a value of its own) with at most MaxVary fields  *)
(* replaced by another value of the field's type, or the zero record; a    *)
(* row is built the same way from cells.  At most one record of a slice,   *)
(* and one row of a table, is not the base one.                            *)
(***************************************************************************)
Letters == <<"a", "b", "c", "d", "e", "f", "g", "h">>

V(i, s, b) == [nil |-> FALSE, i |-> i, s |-> s, b |-> b]

BaseVal(typ, ord) ==
    IF typ.kind \in {"string", "custom", "slice"} THEN V(0, <<Letters[ord]>>, FALSE)
    ELSE IF typ.kind = "bool" THEN V(0, <<>>, TRUE)
    ELSE IF typ.kind = "int" THEN V(10 + ord, <<>>, FALSE)
    ELSE V(ord, <<>>, FALSE)

ElemAltVals(kind) ==
    IF kind = "string" THEN {V(0, <<>>, FALSE), V(0, DefaultNilValue, FALSE)}
    ELSE IF kind = "int" THEN {V(0, <<>>, FALSE), V(0 - 3, <<>>, FALSE)}
    ELSE IF kind = "int8" THEN {V(0 - 128, <<>>, FALSE), V(127, <<>>, FALSE)}
    ELSE IF kind = "uint8" THEN {V(255, <<>>, FALSE)}
    ELSE IF kind = "bool" THEN {V(0, <<>>, FALSE)}
    ELSE IF kind = "custom" THEN {V(0, <<>>, FALSE)}
    ELSE IF kind = "time" THEN {V(0, <<>>, FALSE)}
    ELSE IF kind = "both" THEN {V(0 - 1, <<>>, FALSE), V(0 - 2, <<>>, FALSE)}
    ELSE IF kind = "cellonly" THEN {V(0 - 1, <<>>, FALSE)}
    ELSE {V(0, <<>>, FALSE), V(0, <<"a", "b">>, FALSE)}

AltVals(typ) ==
    IF typ.ptr THEN {ZeroVal(typ)} \cup ElemAltVals(typ.kind)
    ELSE ElemAltVals(typ.kind)

BaseRec(id) ==
    LET l == LeafList(ShapeOf(id), <<>>)
    IN  [p \in LeafPaths(id) |->
            BaseVal(FieldType(id, p), CHOOSE k \in 1..Len(l) : l[k] = p)]

RecordSet(id) ==
    LET paths == LeafPaths(id)
        base == BaseRec(id)
        all == UNION {AltVals(FieldType(id, p)) : p \in paths}
    IN  {ZeroRec(id)} \cup
        UNION { { [p \in paths |-> IF p \in S THEN f[p] ELSE base[p]] :
                    f \in {g \in [S -> all] :
                             \A p \in S : g[p] \in AltVals(FieldType(id, p))} } :
                S \in {S \in SUBSET paths : Cardinality(S) <= MaxVary} }

Reverse(s) == [k \in 1..Len(s) |-> s[Len(s) + 1 - k]]

\* headers: none, the shape's own, one reordered with an unknown column,
\* one that names a column twice, one with the names "-" and ""
HeaderSet(id) ==
    LET ot == getFieldMap(id).orderedTags
    IN  { NilHeader, Hdr(ot), Hdr(Reverse(ot) \o <<"zz">>),
          Hdr(ot \o SubSeq(ot, 1, 1)), Hdr(<<"-", "">> \o SubSeq(ot, 1, 1)) }

NullCell == <<"N", "U", "L", "L">>

AltCells(kind) ==
    {<<>>, DefaultNilValue, NullCell} \cup
    (IF kind = "int" THEN {<<"x">>, <<"+", "7">>, <<"0", "7">>}
     ELSE IF kind = "int8" THEN {<<"2", "0", "0">>}
     ELSE IF kind = "uint8" THEN {<<"-", "1">>, <<"3", "0", "0">>}
     ELSE IF kind = "bool" THEN {<<"T">>, <<"2">>}
     ELSE IF kind = "custom" THEN {<<"p">>}
     ELSE IF kind \in {"time", "both", "cellonly"} THEN {<<"x">>, <<"t", "1">>}
     ELSE {})

\* the kind of the field a column is decoded into ("" for an unmapped column)
ColumnKind(id, r, i) ==
    IF r.header[i] \in DOMAIN r.fields
    THEN FieldType(id, r.fields[r.header[i]]).kind ELSE ""

BaseCell(id, r, i) ==
    IF r.header[i] \in DOMAIN r.fields
    THEN LET typ == FieldType(id, r.fields[r.header[i]])
         IN  formatField(typ, BaseVal(typ, i), DefaultOptions).cell
    ELSE <<"z">>

\* rows offered to a decode whose row handler is r: as long as the header,
\* one cell short, or one cell long
RowSet(id, r) ==
    LET n == Len(r.header)
        base == [i \in 1..n |-> BaseCell(id, r, i)]
        all == UNION {AltCells(ColumnKind(id, r, i)) : i \in 1..n}
        full == UNION { { [i \in 1..n |-> IF i \in S THEN f[i] ELSE base[i]] :
                            f \in {g \in [S -> all] :
                                     \A i \in S : g[i] \in AltCells(ColumnKind(id, r, i))} } :
                        S \in {S \in SUBSET (1..n) : Cardinality(S) <= MaxVary} }
    IN  full \cup {Append(base, <<"z">>)}
             \cup (IF n > 0 THEN {SubSeq(base, 1, n - 1)} ELSE {})

BaseRow(id, r) == [i \in 1..Len(r.header) |-> BaseCell(id, r, i)]

\* what the slice handed to UnmarshalWithOptions may hold already
PriorSet(id) == {<<>>, <<BaseRec(id)>>}

\* the records (rows) the next iteration may meet, given those before it
NextRecords(id, before) ==
    IF \E k \in 1..Len(before) : before[k] # BaseRec(id)
    THEN {BaseRec(id)} ELSE RecordSet(id)

NextRows(id, r, before) ==
    IF \E k \in 1..Len(before) : before[k] # BaseRow(id, r)
    THEN {BaseRow(id, r)} ELSE RowSet(id, r)

(***************************************************************************)
(* State.                                                                  *)
(***************************************************************************)
VARIABLES
    T,       \* the struct type the table functions are used with
    pc,      \* where the program is: walk, idle, marshal, mdone, unmarshal, done
    wk,      \* getFieldMap: result so far, pos, the addFields calls, the heap
    api,     \* the table function that was called
    opts,    \* the Options the caller passed (possibly nil)
    hdr,     \* the header the caller passed to UnmarshalWithOptions
    r,       \* the row handler newRow returned
    n,       \* length of the input slice (records or rows)
    v,       \* MarshalWithOptions: the records encoded so far
    rows,    \* MarshalWithOptions: data, the rows built so far
    out,     \* what MarshalWithOptions returned
    data,    \* UnmarshalWithOptions: the rows of the input
    i,       \* UnmarshalWithOptions: rows taken from data so far
    target,  \* UnmarshalWithOptions: the slice v points to
    err,     \* the error the table function returned ("" for nil)
    trace,   \* the columns handled by the last row call, with the conversions
    old,     \* UnmarshalWithOptions: the elements the slice held at the call
    vkind,   \* UnmarshalWithOptions: what the caller passed as v
    reader,  \* csvmap.Reader: its csv.Reader and its handler
    writer,  \* csvmap.Writer: its csv.Writer and its handler
    got,     \* csvmap.Reader: the records its Read calls have returned
    emitted  \* csvmap.Writer: what each record its csv.Writer took was (the
             \* header, a data row, or the empty record of a nil header)

vars == <<T, pc, wk, api, opts, hdr, r, n, v, rows, out, data, i, target, err, trace,
          old, vkind, reader, writer, got, emitted>>

NoRow == [header |-> <<>>, fields |-> EmptyMap, opts |-> DefaultOptions]

NoOut == [header |-> NilHeader, data |-> [isNil |-> TRUE, rows |-> <<>>]]

\* what a caller may pass as v to UnmarshalWithOptions: a pointer to a slice
\* of structs, or something the checks of lines 410-424 reject
PtrToSlice == "*[]T"

BadTargets == {"[]T", "nil *[]T", "*T", "*[]*T"}

\* r.handler == nil
NoHandler == [isNil |-> TRUE, row |-> NoRow]

\* a nil *T
NoResult == [isNil |-> TRUE, rec |-> <<>>]

\* before NewReader / NewWriter
NoReader == [R |-> [pos |-> 0, total |-> 0], handler |-> NoHandler, result |-> NoResult]

NoWriter == [W |-> [records |-> <<>>, failed |-> FALSE], handler |-> NoHandler]

Init ==
    /\ T \in ShapeIds
    /\ pc = "walk"
    /\ wk = InitWalk(T)
    /\ api = "none"
    /\ opts = NilOptions
    /\ hdr = NilHeader
    /\ r = NoRow
    /\ n = 0
    /\ v = <<>>
    /\ rows = <<>>
    /\ out = NoOut
    /\ data = <<>>
    /\ i = 0
    /\ target = <<>>
    /\ err = ""
    /\ trace = <<>>
    /\ old = <<>>
    /\ vkind = PtrToSlice
    /\ reader = NoReader
    /\ writer = NoWriter
    /\ got = <<>>
    /\ emitted = <<>>

\* one iteration of addFields while getFieldMap(T) runs
addFields ==
    /\ pc = "walk"
    /\ wk.stack # <<>>
    /\ wk' = WalkStep(wk)
    /\ UNCHANGED <<T, pc, api, opts, hdr, r, n, v, rows, out, data, i, target, err, trace, old, vkind, reader, writer, got, emitted>>

\* addFields(t, nil, false) is over: getFieldMap returns
getFieldMapReturn ==
    /\ pc = "walk"
    /\ wk.stack = <<>>
    /\ pc' = "idle"
    /\ UNCHANGED <<T, wk, api, opts, hdr, r, n, v, rows, out, data, i, target, err, trace, old, vkind, reader, writer, got, emitted>>

\* (variant: an empty slice still gets the header of its element type and
\* an empty, non-nil data)
MarshalEmptyWithHeader ==
    /\ pc = "idle"
    /\ \E o \in OptionsSet : opts' = o
    /\ api' = "Marshal"
    /\ out' = [header |-> Hdr(newRow(T, NilHeader, opts').header),
               data |-> [isNil |-> FALSE, rows |-> <<>>]]
    /\ err' = ""
    /\ pc' = "done"
    /\ UNCHANGED <<T, wk, hdr, r, n, v, rows, data, i, target, trace, old, vkind, reader, writer, got, emitted>>

\* MarshalWithOptions(v, o) with len(v) = 0
MarshalEmpty ==
    /\ pc = "idle"
    /\ \E o \in OptionsSet : opts' = o
    /\ api' = "Marshal"
    /\ out' = NoOut
    /\ err' = ""
    /\ pc' = "done"
    /\ UNCHANGED <<T, wk, hdr, r, n, v, rows, data, i, target, trace, old, vkind, reader, writer, got, emitted>>

\* MarshalWithOptions(v, o) with len(v) = len > 0, up to the loop
MarshalWithOptions ==
    /\ pc = "idle"
    /\ \E o \in OptionsSet, len \in 1..MaxRecs :
          /\ opts' = o
          /\ n' = len
          /\ r' = newRow(T, NilHeader, o)
    /\ api' = "Marshal"
    /\ pc' = "marshal"
    /\ UNCHANGED <<T, wk, hdr, v, rows, out, data, i, target, err, trace, old, vkind, reader, writer, got, emitted>>

\* one iteration of the loop of MarshalWithOptions
MarshalRowStep ==
    /\ pc = "marshal"
    /\ Len(v) < n
    /\ \E rec \in NextRecords(T, v) :
          LET m == marshalRow(T, r, rec)
          IN  /\ v' = Append(v, rec)
              /\ rows' = Append(rows, m.row)
              /\ trace' = m.trace
    /\ UNCHANGED <<T, pc, wk, api, opts, hdr, r, n, out, data, i, target, err, old, vkind, reader, writer, got, emitted>>

\* return r.header, data, nil
MarshalReturn ==
    /\ pc = "marshal"
    /\ Len(v) = n
    /\ out' = [header |-> Hdr(r.header), data |-> [isNil |-> FALSE, rows |-> rows]]
    /\ err' = ""
    /\ pc' = "mdone"
    /\ UNCHANGED <<T, wk, api, opts, hdr, r, n, v, rows, data, i, target, trace, old, vkind, reader, writer, got, emitted>>

\* UnmarshalWithOptions(header, data, &target, opts) on what
\* MarshalWithOptions returned, with the same Options, up to the loop
UnmarshalBack ==
    /\ pc = "mdone"
    /\ api = "Marshal"
    /\ api' = "RoundTrip"
    /\ hdr' = out.header
    /\ data' = out.data.rows
    /\ n' = Len(out.data.rows)
    /\ r' = newRow(T, out.header, opts)
    /\ i' = 0
    /\ target' = <<>>
    /\ trace' = <<>>
    /\ pc' = "unmarshal"
    /\ UNCHANGED <<T, wk, opts, v, rows, out, err, old, vkind, reader, writer, got, emitted>>

\* MarshalWithOptions(target, opts), from the call to the return, on the
\* slice that a successful UnmarshalWithOptions has filled from empty under
\* the shape's own header, with the same Options
MarshalBack ==
    /\ pc = "done"
    /\ api = "Unmarshal"
    /\ vkind = PtrToSlice
    /\ err = ""
    /\ old = <<>>
    /\ hdr = Hdr(getFieldMap(T).orderedTags)
    /\ api' = "ReEncode"
    /\ v' = target
    /\ n' = Len(target)
    /\ LET h == newRow(T, NilHeader, opts)
           built == [k \in 1..Len(target) |-> marshalRow(T, h, target[k]).row]
       IN  IF target = <<>>
           THEN /\ out' = NoOut
                /\ UNCHANGED <<r, rows, trace>>
           ELSE /\ r' = h
                /\ rows' = built
                /\ trace' = marshalRow(T, h, target[Len(target)]).trace
                /\ out' = [header |-> Hdr(h.header), data |-> [isNil |-> FALSE, rows |-> built]]
    /\ pc' = IF target = <<>> THEN "done" ELSE "mdone"
    /\ UNCHANGED <<T, wk, opts, hdr, data, i, target, err, old, vkind, reader, writer, got, emitted>>

\* (variant: the element type is looked at through a pointer, so that a
\* slice of pointers to structs passes)
CheckTargetThroughPtr(vk) ==
    IF vk \in {"[]T", "nil *[]T"} THEN "v must be a non-nil pointer to a slice"
    ELSE IF vk = "*T" THEN "v must be a pointer to a slice"
    ELSE ""

\* the checks of v at lines 410-424: the error returned ("" if v passes)
CheckTarget(vk) ==
    IF vk \in {"[]T", "nil *[]T"} THEN "v must be a non-nil pointer to a slice"
    ELSE IF vk = "*T" THEN "v must be a pointer to a slice"
    ELSE IF vk = "*[]*T" THEN "slice elements must be structs"
    ELSE ""

\* UnmarshalWithOptions(h, data, v, o) with len(data) = len, up to the
\* loop; the rows of data are drawn as the loop reaches them, and what v
\* points to may hold elements already
UnmarshalWithOptions ==
    /\ pc = "idle"
    /\ \E h \in HeaderSet(T), o \in OptionsSet, len \in 0..MaxRows,
          prior \in PriorSet(T), vk \in {PtrToSlice} \cup BadTargets :
          \* a slice that holds an element, and a v that is rejected, are
          \* tried with the shape's own header
          /\ (prior # <<>> \/ vk # PtrToSlice) => h = Hdr(getFieldMap(T).orderedTags)
          \* the other headers are tried with the default sentinel and with ""
          /\ h # Hdr(getFieldMap(T).orderedTags) => o \in ForeignHeaderOptions
          /\ hdr' = h
          /\ opts' = o
          /\ n' = len
          /\ vkind' = vk
          /\ old' = prior
          /\ target' = prior
          /\ IF CheckTarget(vk) # ""
             THEN err' = CheckTarget(vk) /\ pc' = "done" /\ r' = r
             ELSE err' = err /\ pc' = "unmarshal" /\ r' = newRow(T, h, o)
    /\ api' = "Unmarshal"
    /\ UNCHANGED <<T, wk, v, rows, out, data, i, trace, reader, writer, got, emitted>>

\* (variant: the records are collected in a fresh slice, which replaces the
\* caller's, so that the elements it held are lost)
DecodeRowFreshSlice(rowData) ==
    IF Len(rowData) # Len(hdr.names)
    THEN /\ err' = "inconsistent data length"
         /\ pc' = "done"
         /\ trace' = <<>>
         /\ UNCHANGED target
    ELSE LET u == unmarshalRow(T, r, rowData, ZeroRec(T))
         IN  /\ trace' = u.trace
             /\ err' = u.err
             /\ IF u.err # ""
                THEN pc' = "done" /\ UNCHANGED target
                ELSE pc' = pc /\ target' = Append(SubSeq(target, Len(old) + 1, Len(target)), u.rec)

\* (variant: the struct of a row that failed is appended all the same)
DecodeRowAppendOnError(rowData) ==
    IF Len(rowData) # Len(hdr.names)
    THEN /\ err' = "inconsistent data length"
         /\ pc' = "done"
         /\ trace' = <<>>
         /\ UNCHANGED target
    ELSE LET u == unmarshalRow(T, r, rowData, ZeroRec(T))
         IN  /\ trace' = u.trace
             /\ err' = u.err
             /\ target' = Append(target, u.rec)
             /\ pc' = IF u.err # "" THEN "done" ELSE pc

\* the body of the loop of UnmarshalWithOptions for the row rowData
DecodeRow(rowData) ==
    IF Len(rowData) # Len(hdr.names)
    THEN /\ err' = "inconsistent data length"
         /\ pc' = "done"
         /\ trace' = <<>>
         /\ UNCHANGED target
    ELSE LET u == unmarshalRow(T, r, rowData, ZeroRec(T))
         IN  /\ trace' = u.trace
             /\ err' = u.err
             /\ IF u.err # ""
                THEN pc' = "done" /\ UNCHANGED target
                ELSE pc' = pc /\ target' = Append(target, u.rec)

\* one iteration of the loop of UnmarshalWithOptions
UnmarshalRowStep ==
    /\ pc = "unmarshal"
    /\ i < n
    /\ IF api = "RoundTrip"
       THEN DecodeRow(data[i + 1]) /\ UNCHANGED data
       ELSE \E rowData \in NextRows(T, r, data) :
               DecodeRow(rowData) /\ data' = Append(data, rowData)
    /\ i' = i + 1
    /\ UNCHANGED <<T, wk, api, opts, hdr, r, n, v, rows, out, old, vkind, reader, writer, got, emitted>>

\* the loop is over: return nil
UnmarshalReturn ==
    /\ pc = "unmarshal"
    /\ i = n
    /\ err' = ""
    /\ pc' = "done"
    /\ UNCHANGED <<T, wk, api, opts, hdr, r, n, v, rows, out, data, i, target, trace, old, vkind, reader, writer, got, emitted>>

(***************************************************************************)
(* csvmap.Reader.  Its csv.Reader R is a stream of total records (the      *)
(* header first) of which pos have been read; the records are drawn as     *)
(* they are read.  R.Read returns io.EOF at the end of the stream and      *)
(* csv.ErrFieldCount for a record that is not as long as the first one.    *)
(***************************************************************************)
\* the header records a stream may start with: the shape's own, and one
\* reordered with an unknown column (under the Options tried with such)
CsvHeaderSet(id, o) ==
    LET ot == getFieldMap(id).orderedTags
    IN  {Hdr(ot)} \cup (IF o \in ForeignHeaderOptions THEN {Hdr(Reverse(ot) \o <<"zz">>)} ELSE {})

\* NewReader(stream, o)
NewReader ==
    /\ pc = "idle"
    /\ \E o \in OptionsSet, total \in 0..(MaxRows + 1) :
          /\ opts' = o
          /\ reader' = [R |-> [pos |-> 0, total |-> total],
                        handler |-> NoHandler, result |-> NoResult]
          /\ n' = IF total = 0 THEN 0 ELSE total - 1
    /\ got' = <<>>
    /\ api' = "Reader"
    /\ pc' = "reading"
    /\ UNCHANGED <<T, wk, hdr, r, v, rows, out, data, i, target, err, trace, old, vkind, writer, emitted>>

\* what Read does once it has a handler h (lines 42-48), the csv.Reader
\* being at pos
ReadRow(h, pos) ==
    IF pos >= reader.R.total
    THEN /\ err' = "EOF"
         /\ reader' = [R |-> [reader.R EXCEPT !.pos = pos],
                       handler |-> [isNil |-> FALSE, row |-> h], result |-> NoResult]
         /\ trace' = <<>>
         /\ UNCHANGED <<data, got>>
    ELSE \E row \in NextRows(T, h, data) :
            LET u == unmarshalRow(T, h, row, ZeroRec(T))
                short == Len(row) # Len(h.header)
            IN  /\ data' = Append(data, row)
                /\ err' = IF short THEN "wrong number of fields" ELSE u.err
                /\ trace' = IF short THEN <<>> ELSE u.trace
                /\ reader' = [R |-> [reader.R EXCEPT !.pos = pos + 1],
                              handler |-> [isNil |-> FALSE, row |-> h],
                              result |-> IF short \/ u.err # "" THEN NoResult
                                         ELSE [isNil |-> FALSE, rec |-> u.rec]]
                /\ got' = IF reader'.result.isNil THEN got
                          ELSE Append(got, reader'.result.rec)

\* (variant: the handler built from the header is not kept in the Reader)
ReadForgetHandler ==
    /\ pc = "reading"
    /\ i < reader.R.total \/ i = 0
    /\ IF reader.R.pos >= reader.R.total
       THEN /\ err' = "EOF"
            /\ reader' = [reader EXCEPT !.result = NoResult]
            /\ trace' = <<>>
            /\ UNCHANGED <<hdr, r, data, got>>
       ELSE \E h \in CsvHeaderSet(T, opts) :
               /\ hdr' = h
               /\ r' = newRow(T, h, opts)
               /\ ReadRow(newRow(T, h, opts), reader.R.pos + 1)
    /\ i' = i + 1
    /\ UNCHANGED <<T, pc, wk, api, opts, n, v, rows, out, target, old, vkind, writer, emitted>>

\* Reader.Read()
Read ==
    /\ pc = "reading"
    /\ i < reader.R.total \/ i = 0
    /\ IF reader.handler.isNil
       THEN IF reader.R.pos >= reader.R.total
            THEN /\ err' = "EOF"
                 /\ reader' = [reader EXCEPT !.result = NoResult]
                 /\ trace' = <<>>
                 /\ UNCHANGED <<hdr, r, data, got>>
            ELSE \E h \in CsvHeaderSet(T, opts) :
                    /\ hdr' = h
                    /\ r' = newRow(T, h, opts)
                    /\ ReadRow(newRow(T, h, opts), reader.R.pos + 1)
       ELSE /\ ReadRow(reader.handler.row, reader.R.pos)
            /\ UNCHANGED <<hdr, r>>
    /\ i' = i + 1
    /\ UNCHANGED <<T, pc, wk, api, opts, n, v, rows, out, target, old, vkind, writer, emitted>>

(***************************************************************************)
(* ReadAll, in its two forms: the method of csvmap.Reader and the generic  *)
(* function over a Reader.  Both are called on a fresh Reader over the     *)
(* stream a Reader has just read to io.EOF with Read, whose records are    *)
(* therefore known: the header hdr and the rows data, or none at all.      *)
(***************************************************************************)
\* the records of the stream that was read to its end
StreamRecords == IF reader.R.total = 0 THEN <<>> ELSE <<hdr.names>> \o data

\* csv.Reader.ReadAll and the Read loop: csv.ErrFieldCount for the first
\* record that is not as long as the first one
CsvFieldCount(records) ==
    IF \E k \in 1..Len(records) : Len(records[k]) # Len(records[1])
    THEN "wrong number of fields" ELSE ""

\* the loop of UnmarshalWithOptions over rows from row k on, the slice
\* holding acc so far; u is what unmarshalRow returned for row k
RECURSIVE DecodeRows(_, _, _, _, _)
RECURSIVE DecodedRow(_, _, _, _, _, _)
DecodedRow(id, h, rowsIn, k, acc, u) ==
    IF u.err # "" THEN [err |-> u.err, recs |-> <<>>]
    ELSE DecodeRows(id, h, rowsIn, k + 1, Append(acc, u.rec))

DecodeRows(id, h, rowsIn, k, acc) ==
    IF k > Len(rowsIn) THEN [err |-> "", recs |-> acc]
    ELSE IF Len(rowsIn[k]) # Len(h.header)
         THEN [err |-> "inconsistent data length", recs |-> <<>>]
         ELSE DecodedRow(id, h, rowsIn, k, acc, unmarshalRow(id, h, rowsIn[k], ZeroRec(id)))

\* UnmarshalWithOptions(header, rows, &result, o) with result a nil []T:
\* the error and what ReadAll returns as the slice
UnmarshalAll(id, header, rowsIn, o) ==
    DecodeRows(id, newRow(id, Hdr(header), o), rowsIn, 1, <<>>)

\* (variant: the rows are taken from records[2:], one record too far)
ReaderReadAllFromSecond ==
    /\ pc = "reading"
    /\ api = "Reader"
    /\ err = "EOF"
    /\ \E u \in {IF StreamRecords = <<>>
                  THEN [err |-> "index out of range [0] with length 0", recs |-> <<>>]
                  ELSE IF CsvFieldCount(StreamRecords) # ""
                  THEN [err |-> "wrong number of fields", recs |-> <<>>]
                  ELSE UnmarshalAll(T, StreamRecords[1],
                                    SubSeq(StreamRecords, 3, Len(StreamRecords)), opts)} :
          /\ err' = u.err
          /\ target' = u.recs
    /\ pc' = IF StreamRecords = <<>> THEN "panic" ELSE "done"
    /\ api' = "ReadAll"
    /\ trace' = <<>>
    /\ UNCHANGED <<T, wk, opts, hdr, r, n, v, rows, out, data, i, old, vkind, reader, writer, got, emitted>>

\* Reader.ReadAll() on a fresh Reader over the same stream; records[0] of
\* an empty slice makes the call panic
ReaderReadAll ==
    /\ pc = "reading"
    /\ api = "Reader"
    /\ err = "EOF"
    /\ \E u \in {IF StreamRecords = <<>>
                  THEN [err |-> "index out of range [0] with length 0", recs |-> <<>>]
                  ELSE IF CsvFieldCount(StreamRecords) # ""
                  THEN [err |-> "wrong number of fields", recs |-> <<>>]
                  ELSE UnmarshalAll(T, StreamRecords[1], Tail(StreamRecords), opts)} :
          /\ err' = u.err
          /\ target' = u.recs
    /\ pc' = IF StreamRecords = <<>> THEN "panic" ELSE "done"
    /\ api' = "ReadAll"
    /\ trace' = <<>>
    /\ UNCHANGED <<T, wk, opts, hdr, r, n, v, rows, out, data, i, old, vkind, reader, writer, got, emitted>>

\* ReadAll[T](r) on a fresh Reader over the same stream
ReadAllFunc ==
    /\ pc = "reading"
    /\ api = "Reader"
    /\ err = "EOF"
    /\ \E u \in {IF StreamRecords = <<>> THEN [err |-> "EOF", recs |-> <<>>]
                  ELSE IF CsvFieldCount(StreamRecords) # ""
                  THEN [err |-> "wrong number of fields", recs |-> <<>>]
                  ELSE UnmarshalAll(T, StreamRecords[1], Tail(StreamRecords), opts)} :
          /\ err' = u.err
          /\ target' = u.recs
    /\ pc' = "done"
    /\ api' = "ReadAllFunc"
    /\ trace' = <<>>
    /\ UNCHANGED <<T, wk, opts, hdr, r, n, v, rows, out, data, i, old, vkind, reader, writer, got, emitted>>

(***************************************************************************)
(* csvmap.Writer.  Its csv.Writer W is the sequence of records handed to   *)
(* it and accepted; once a write to the underlying io.Writer has failed,   *)
(* every later W.Write returns the error.                                  *)
(***************************************************************************)
\* NewWriter(w, o), to be followed by n calls of Write
NewWriter ==
    /\ pc = "idle"
    /\ \E o \in OptionsSet, len \in 1..MaxRecs :
          /\ opts' = o
          /\ n' = len
    /\ writer' = NoWriter
    /\ emitted' = <<>>
    /\ api' = "Writer"
    /\ pc' = "writing"
    /\ UNCHANGED <<T, wk, hdr, r, v, rows, out, data, i, target, err, trace, old, vkind, reader, got>>

\* W.Write(record): the csv.Writer after the call and whether it failed
CsvWrite(W, record, ok) ==
    IF W.failed \/ ~ok THEN [W EXCEPT !.failed = TRUE]
    ELSE [W EXCEPT !.records = Append(W.records, record)]

\* the records Write is called with: after a WriteAll, the base record
WriteRecords == IF api = "WriteAll" THEN {BaseRec(T)} ELSE NextRecords(T, v)

\* the log of the records W took, after a call of Write that led from the
\* csv.Writer W0 to W1: a data row, with the header before it when the call
\* wrote two records
Logged(log, W0, W1) ==
    LET k == Len(W1.records) - Len(W0.records)
    IN  IF k = 2 THEN log \o <<"header", "row">>
        ELSE IF k = 1 THEN Append(log, "row")
        ELSE log

\* (variant: the header is written by every call)
WriteHeaderEachCall ==
    /\ pc = "writing"
    /\ Len(v) < n
    /\ \E rec \in WriteRecords, ok \in BOOLEAN :
          LET header == newRow(T, NilHeader, opts).header
              h == newRow(T, Hdr(header), opts)
              W1 == CsvWrite(writer.W, header, ok)
              m == marshalRow(T, h, rec)
              W2 == CsvWrite(W1, m.row, TRUE)
          IN  /\ v' = Append(v, rec)
              /\ r' = h
              /\ IF W1.failed
                 THEN /\ writer' = [W |-> W1, handler |-> [isNil |-> FALSE, row |-> h]]
                      /\ err' = "write"
                      /\ UNCHANGED trace
                 ELSE /\ writer' = [W |-> W2, handler |-> [isNil |-> FALSE, row |-> h]]
                      /\ err' = IF W2.failed THEN "write" ELSE ""
                      /\ trace' = m.trace
    /\ emitted' = Logged(emitted, writer.W, writer'.W)
    /\ UNCHANGED <<T, pc, wk, api, opts, hdr, n, rows, out, data, i, target, old, vkind, reader, got>>

\* Writer.Write(data); ok is the fate of the first write the call makes to
\* the underlying io.Writer (the header's on the first call)
Write ==
    /\ pc = "writing"
    /\ Len(v) < n
    /\ \E rec \in WriteRecords, ok \in BOOLEAN :
          LET first == writer.handler.isNil
              header == newRow(T, NilHeader, opts).header
              h == IF first THEN newRow(T, Hdr(header), opts) ELSE writer.handler.row
              W1 == IF first THEN CsvWrite(writer.W, header, ok) ELSE writer.W
              m == marshalRow(T, h, rec)
              W2 == CsvWrite(W1, m.row, first \/ ok)
          IN  /\ v' = Append(v, rec)
              /\ r' = h
              /\ IF first /\ W1.failed
                 THEN /\ writer' = [W |-> W1, handler |-> [isNil |-> FALSE, row |-> h]]
                      /\ err' = "write"
                      /\ UNCHANGED trace
                 ELSE /\ writer' = [W |-> W2, handler |-> [isNil |-> FALSE, row |-> h]]
                      /\ err' = IF W2.failed THEN "write" ELSE ""
                      /\ trace' = m.trace
    /\ emitted' = Logged(emitted, writer.W, writer'.W)
    /\ UNCHANGED <<T, pc, wk, api, opts, hdr, n, rows, out, data, i, target, old, vkind, reader, got>>

\* the slices WriteAll is called with
WriteAllData(id) == { <<>>, <<BaseRec(id)>> }

\* what MarshalWithOptions(d, o) returns as header and rows (both nil for
\* an empty d)
MarshalAll(id, d, o) ==
    IF d = <<>> THEN [header |-> <<>>, rows |-> <<>>]
    ELSE LET h == newRow(id, NilHeader, o)
         IN  [header |-> h.header,
              rows |-> [k \in 1..Len(d) |-> marshalRow(id, h, d[k]).row]]

\* Writer.WriteAll(d), once for a Writer, which has been given base records
\* only.  Its writes fail if a write of the csv.Writer has failed before.
\* The handler of the Writer is neither read nor set.
WriteAll ==
    /\ pc = "writing"
    /\ api = "Writer"
    /\ \A k \in 1..Len(v) : v[k] = BaseRec(T)
    /\ \E d \in WriteAllData(T) :
          LET m == MarshalAll(T, d, opts)
              failed == writer.W.failed
          IN  /\ writer' = [writer EXCEPT
                               !.W = IF failed THEN [writer.W EXCEPT !.failed = TRUE]
                                     ELSE [writer.W EXCEPT
                                              !.records = writer.W.records \o <<m.header>> \o m.rows]]
              /\ emitted' = IF failed THEN emitted
                            ELSE emitted \o <<IF d = <<>> THEN "empty" ELSE "header">>
                                         \o [k \in 1..Len(m.rows) |-> "row"]
              /\ err' = IF failed THEN "write" ELSE ""
    /\ api' = "WriteAll"
    /\ UNCHANGED <<T, pc, wk, opts, hdr, r, n, v, rows, out, data, i, target, trace, old, vkind, reader, got>>

(***************************************************************************)
(* RowHandler used on its own: NewRowHandler[T](header, opts), then        *)
(* MarshalRow on a record.                                                 *)
(***************************************************************************)
\* NewRowHandler[T](h, o)
NewRowHandler ==
    /\ pc = "idle"
    /\ \E h \in HeaderSet(T), o \in ForeignHeaderOptions \cup {NilOptions} :
          /\ hdr' = h
          /\ opts' = o
          /\ r' = newRow(T, h, o)
    /\ api' = "RowHandler"
    /\ pc' = "handler"
    /\ UNCHANGED <<T, wk, n, v, rows, out, data, i, target, err, trace, old, vkind, reader, writer, got, emitted>>

\* h.MarshalRow(&rec)
MarshalRow ==
    /\ pc = "handler"
    /\ \E rec \in RecordSet(T) :
          LET m == marshalRow(T, r, rec)
          IN  /\ v' = <<rec>>
              /\ rows' = <<m.row>>
              /\ trace' = m.trace
    /\ err' = ""
    /\ pc' = "rowdone"
    /\ UNCHANGED <<T, wk, api, opts, hdr, r, n, out, data, i, target, old, vkind, reader, writer, got, emitted>>

\* getFieldMap(T) is called once more (as every newRow does), after
\* whatever was encoded or decoded before
getFieldMapAgain ==
    /\ pc = "idle" \/ (pc = "mdone" /\ api = "Marshal")
    /\ wk' = getFieldMapAfter(T, wk.heap)
    /\ pc' = "resolved"
    /\ UNCHANGED <<T, api, opts, hdr, r, n, v, rows, out, data, i, target, err, trace, old, vkind, reader, writer, got, emitted>>

Next ==
    \/ addFields
    \/ getFieldMapReturn
    \/ getFieldMapAgain
    \/ MarshalEmpty
    \/ MarshalWithOptions
    \/ MarshalRowStep
    \/ MarshalReturn
    \/ UnmarshalBack
    \/ MarshalBack
    \/ UnmarshalWithOptions
    \/ UnmarshalRowStep
    \/ UnmarshalReturn
    \/ NewReader
    \/ Read
    \/ NewWriter
    \/ Write
    \/ NewRowHandler
    \/ MarshalRow
    \/ ReaderReadAll
    \/ ReadAllFunc
    \/ WriteAll

Spec == Init /\ [][Next]_vars

TypeOK ==
    /\ pc \in {"walk", "idle", "marshal", "mdone", "unmarshal", "done", "reading", "writing", "resolved",
              "handler", "rowdone", "panic"}
    /\ api \in {"none", "Marshal", "Unmarshal", "RoundTrip", "ReEncode", "Reader", "Writer", "RowHandler",
               "ReadAll", "ReadAllFunc", "WriteAll"}

(***************************************************************************)
(* What the claims speak of, read off the shape itself.                    *)
(***************************************************************************)
Range(s) == {s[k] : k \in 1..Len(s)}

NoDuplicates(s) == \A j, k \in 1..Len(s) : s[j] = s[k] => j = k

SelectTags(l, id) ==
    SelectSeq([k \in 1..Len(l) |-> FieldTag(id, l[k])], LAMBDA t : ~(t = "" \/ t = "-"))

\* the tags of the shape in declaration order, embedded structs flattened
\* in place, excluded fields left out
DeclTags(id) == SelectTags(LeafList(ShapeOf(id), <<>>), id)

NoCollisions(id) == NoDuplicates(DeclTags(id))

\* position of a leaf field in declaration order
DeclOrd(id, p) ==
    LET l == LeafList(ShapeOf(id), <<>>) IN CHOOSE k \in 1..Len(l) : l[k] = p

\* every leaf field is mapped, under a tag of its own, and is a string, an
\* integer, a boolean or a pointer to one
PlainShape(id) ==
    /\ NoCollisions(id)
    /\ \A p \in LeafPaths(id) :
          /\ ~(FieldTag(id, p) = "" \/ FieldTag(id, p) = "-")
          /\ FieldType(id, p).kind \in {"string", "int", "int8", "uint8", "bool"}

\* no pointer of the record is nil, and no string of it reads as the nil
\* sentinel or, behind a pointer, as the empty cell
Unambiguous(id, rec, o) ==
    \A p \in LeafPaths(id) :
        /\ ~rec[p].nil
        /\ FieldType(id, p).kind = "string" =>
              /\ rec[p].s # EffectiveOptions(o).NilValue
              /\ FieldType(id, p).ptr => rec[p].s # <<>>

\* <<w, q>>: w is a direct field of the struct, the last direct field with
\* its tag, and q is an earlier leaf field (direct or embedded) with that tag
ShadowPairs(id) ==
    { pq \in LeafPaths(id) \X LeafPaths(id) :
        /\ Len(pq[1]) = 1
        /\ ~(FieldTag(id, pq[1]) = "" \/ FieldTag(id, pq[1]) = "-")
        /\ FieldTag(id, pq[2]) = FieldTag(id, pq[1])
        /\ DeclOrd(id, pq[2]) < DeclOrd(id, pq[1])
        /\ \A p \in LeafPaths(id) :
              (Len(p) = 1 /\ FieldTag(id, p) = FieldTag(id, pq[1]))
                  => DeclOrd(id, p) <= DeclOrd(id, pq[1]) }

\* the column of a header that carries a name (0 if none)
ColumnOf(names, t) ==
    IF \E k \in 1..Len(names) : names[k] = t
    THEN CHOOSE k \in 1..Len(names) : names[k] = t ELSE 0

Decoding == api \in {"Unmarshal", "RoundTrip"}

\* the records the call has appended to the slice so far
Appended == SubSeq(target, Len(old) + 1, Len(target))

(***************************************************************************)
(* C1  Round trip.  For a shape whose leaf fields are all mapped strings,  *)
(* integers, booleans or pointers to those, and for any Options,           *)
(* UnmarshalWithOptions applied to what MarshalWithOptions returned        *)
(* succeeds and yields the original records.  (Stated here for records     *)
(* whose pointers are non-nil and whose strings cannot be read as the nil  *)
(* sentinel, the spec's own proviso, which the claim implies.)             *)
(***************************************************************************)
RoundTrip ==
    (pc = "done" /\ api = "RoundTrip" /\ PlainShape(T)
        /\ \A k \in 1..Len(v) : Unambiguous(T, v[k], opts))
    => (err = "" /\ target = v)

(***************************************************************************)
(* C2  Nil round trip.  Under any Options, a nil pointer field is encoded  *)
(* as exactly Options.NilValue, and decoding that cell with the same       *)
(* Options leaves the pointer field nil; this includes NilValue = "".      *)
(***************************************************************************)
NilRoundTrip ==
    /\ (pc \in {"marshal", "mdone"} /\ v # <<>>) =>
          \A c \in 1..Len(trace) :
              (trace[c].mapped /\ FieldType(T, trace[c].path).ptr /\ trace[c].val.nil)
                  => rows[Len(rows)][c] = EffectiveOptions(opts).NilValue
    /\ (api = "RoundTrip" /\ i >= 1 /\ Len(target) = i) =>
          \A c \in 1..Len(r.header) :
              LET path == r.fields[r.header[c]]
              IN  (FieldType(T, path).ptr /\ v[i][path].nil)
                      => /\ data[i][c] = EffectiveOptions(opts).NilValue
                         /\ target[i][path].nil

NilRoundTripWitness ==
    /\ api = "RoundTrip" /\ pc = "done" /\ Len(target) = 1
    /\ T.name = "NilValueT"
    /\ opts = [isNil |-> FALSE, NilValue |-> <<>>]
    /\ v[1][<<0>>].nil /\ data[1][1] = <<>> /\ target[1][<<0>>].nil

(***************************************************************************)
(* C3  Header order.  For a shape without tag collisions the header that   *)
(* Marshal returns is the tags in declaration order, each embedded struct  *)
(* flattened depth first at the place where it is embedded.                *)
(***************************************************************************)
HeaderOrder ==
    (pc = "mdone" /\ NoCollisions(T)) => out.header = Hdr(DeclTags(T))

HeaderOrderWitness ==
    /\ pc = "mdone"
    /\ T.name = "Multiple"
    /\ out.header.names = <<"b", "c", "x", "y", "z", "m">>

(***************************************************************************)
(* C4  Override rule.  When a direct field declares a tag that an earlier  *)
(* leaf field (embedded or direct) declared, the header has the tag once,  *)
(* at the direct field's slot; encode emits the direct field's value;      *)
(* decode writes the direct field and the shadowed field keeps its zero    *)
(* value.                                                                  *)
(***************************************************************************)
OverrideRule ==
    \A pq \in ShadowPairs(T) :
        LET w == pq[1]
            q == pq[2]
            t == FieldTag(T, w)
        IN  /\ pc = "mdone" =>
                 LET h == out.header.names
                     c == ColumnOf(h, t)
                 IN  /\ Cardinality({k \in 1..Len(h) : h[k] = t}) = 1
                     /\ \A k \in 1..Len(h) :
                           k # c => (k < c <=> r.fields[h[k]][1] < w[1])
            /\ (pc \in {"marshal", "mdone"} /\ v # <<>>) =>
                 rows[Len(rows)][ColumnOf(r.header, t)]
                     = formatField(FieldType(T, w), v[Len(v)][w], r.opts).cell
            /\ (Decoding /\ i >= 1) =>
                 /\ \A c \in 1..Len(trace) :
                       (trace[c].mapped /\ r.header[c] = t) => trace[c].path = w
                 /\ \A k \in 1..Len(Appended) : Appended[k][q] = ZeroVal(FieldType(T, q))

(***************************************************************************)
(* C5  FieldMap invariant.  After every step of the walk, and ever after,  *)
(* orderedTags has no duplicate and the keys of fields are exactly the     *)
(* tags in orderedTags.                                                    *)
(***************************************************************************)
FieldMapInvariant ==
    /\ NoDuplicates(wk.orderedTags)
    /\ DOMAIN wk.fields = Range(wk.orderedTags)

\* in the middle of a walk, just after a direct field overrode a tag
FieldMapInvariantWitness ==
    /\ pc = "walk"
    /\ T.name = "Override"
    /\ wk.stack # <<>>
    /\ wk.pos = 3
    /\ wk.orderedTags = <<"c", "b">>

(***************************************************************************)
(* C6  Excluded fields.  A leaf field with no tag or with the tag "-" is   *)
(* in neither fields nor orderedTags; it is never in the header, never     *)
(* read by encode, and decode leaves it at its zero value, also when the   *)
(* header has a column named "-" or "".                                    *)
(***************************************************************************)
ExcludedFields ==
    \A p \in LeafPaths(T) :
        (FieldTag(T, p) = "" \/ FieldTag(T, p) = "-") =>
            /\ FieldTag(T, p) \notin DOMAIN wk.fields
            /\ FieldTag(T, p) \notin Range(wk.orderedTags)
            /\ pc = "mdone" => FieldTag(T, p) \notin Range(out.header.names)
            /\ (pc \in {"marshal", "mdone"} /\ v # <<>>) =>
                  \A c \in 1..Len(trace) : trace[c].mapped => trace[c].path # p
            /\ Decoding =>
                  \A k \in 1..Len(Appended) : Appended[k][p] = ZeroVal(FieldType(T, p))

(***************************************************************************)
(* C7  Nil sentinel on decode.  A cell equal to Options.NilValue sets a    *)
(* pointer field to nil and invokes no codec and no parse; for a field     *)
(* that is not a pointer, whatever its type, it is an error that ends the *)
(* call, again with no codec or parse invoked.                             *)
(***************************************************************************)
NilSentinelDecode ==
    (Decoding /\ i >= 1) =>
        \A k \in 1..Len(trace) :
            LET ev == trace[k]
            IN  (ev.mapped /\ data[i][ev.col] = r.opts.NilValue) =>
                    /\ ev.calls = <<>>
                    /\ IF FieldType(T, ev.path).ptr
                       THEN ev.val.nil
                       ELSE /\ k = Len(trace)
                            /\ err = "cannot set nil to non-pointer field"
                            /\ pc = "done"
                            /\ Len(Appended) = i - 1

\* the sentinel "NULL" met a CustomType field that is not a pointer
NilSentinelDecodeWitness ==
    /\ Decoding /\ i >= 1 /\ trace # <<>>
    /\ T.name = "Codec"
    /\ r.opts.NilValue = NullCell
    /\ r.header[trace[Len(trace)].col] = "custom"
    /\ data[i][trace[Len(trace)].col] = NullCell
    /\ err = "cannot set nil to non-pointer field"

(***************************************************************************)
(* C8  Decode tier order.  For a cell that is not the sentinel (nor the    *)
(* empty cell of a pointer field): a type with the cell codec gets only    *)
(* UnmarshalCell, otherwise a type with the text codec gets only           *)
(* UnmarshalText, otherwise the built-in conversion is used; the error of  *)
(* the selected tier is the decode error, with no lower tier tried.        *)
(***************************************************************************)
SelectedTierFails(kind, cell) ==
    IF ImplementsCell(kind) THEN ~UnmarshalCell(kind, NoVal, cell).ok
    ELSE IF ImplementsText(kind) THEN ~UnmarshalText(kind, NoVal, cell).ok
    ELSE SetBuiltin(kind, NoVal, cell).err # ""

DecodeTierOrder ==
    (Decoding /\ i >= 1) =>
        \A k \in 1..Len(trace) :
            LET ev == trace[k]
                cell == data[i][ev.col]
                typ == FieldType(T, ev.path)
            IN  (ev.mapped /\ cell # r.opts.NilValue /\ ~(typ.ptr /\ cell = <<>>)) =>
                    /\ ImplementsCell(typ.kind) => ev.calls = <<"UnmarshalCell">>
                    /\ (~ImplementsCell(typ.kind) /\ ImplementsText(typ.kind))
                           => ev.calls = <<"UnmarshalText">>
                    /\ (~ImplementsCell(typ.kind) /\ ~ImplementsText(typ.kind))
                           => ev.calls \in {<<"builtin">>, <<"unsupported">>}
                    /\ SelectedTierFails(typ.kind, cell) =>
                           /\ k = Len(trace)
                           /\ err # ""
                           /\ pc = "done"
                           /\ Len(Appended) = i - 1
                    /\ (~SelectedTierFails(typ.kind, cell) /\ k = Len(trace))
                           => err = ""

\* the cell codec of a type that also has the text codec refused a cell the
\* text codec would have taken
DecodeTierOrderWitness ==
    /\ Decoding /\ i >= 1 /\ trace # <<>>
    /\ T.name = "Codec"
    /\ r.header[trace[Len(trace)].col] = "both"
    /\ data[i][trace[Len(trace)].col] = <<"t", "1">>
    /\ trace[Len(trace)].calls = <<"UnmarshalCell">>
    /\ err = "codec"

(***************************************************************************)
(* C9  Lenient encode.  MarshalWithOptions on a non-empty slice returns no *)
(* error and a full row per record: when the cell codec fails the text     *)
(* codec is tried; when that fails or is absent the built-in formatting is *)
(* used, and a kind without one gets the generic rendering.                *)
(***************************************************************************)
LenientEncode ==
    (pc \in {"marshal", "mdone"} /\ v # <<>>) =>
        /\ err = ""
        /\ Len(rows) = Len(v)
        /\ Len(rows[Len(rows)]) = Len(r.header)
        /\ pc = "mdone" => (out.data.rows = rows /\ Len(rows) = n)
        /\ \A c \in 1..Len(trace) :
              LET ev == trace[c]
                  kind == FieldType(T, ev.path).kind
                  cell == rows[Len(rows)][c]
                  cellOk == ImplementsCell(kind) /\ MarshalCell(kind, ev.val).ok
                  textOk == ImplementsText(kind) /\ MarshalText(kind, ev.val).ok
              IN  (ev.mapped /\ ~ev.val.nil) =>
                      /\ cellOk => (ev.calls = <<"MarshalCell">>
                                       /\ cell = MarshalCell(kind, ev.val).cell)
                      /\ (ImplementsCell(kind) /\ ~cellOk /\ ImplementsText(kind))
                             => (Len(ev.calls) >= 2 /\ ev.calls[2] = "MarshalText")
                      /\ (~cellOk /\ textOk) =>
                             (ev.calls[Len(ev.calls)] = "MarshalText"
                                 /\ cell = MarshalText(kind, ev.val).cell)
                      /\ (~cellOk /\ ~textOk) =>
                             /\ ev.calls[Len(ev.calls)] =
                                   (IF kind \in {"slice", "custom", "time"}
                                    THEN "Sprintf" ELSE "builtin")
                             /\ IsIntKind(kind) => cell = FormatInt(ev.val.i)
                             /\ kind = "string" => cell = ev.val.s
                             /\ kind = "bool" => cell = FormatBool(ev.val.b)

\* both codecs of a field failed and the number was formatted
LenientEncodeWitness ==
    /\ pc = "mdone"
    /\ T.name = "Codec"
    /\ v[1][<<2>>].i = 0 - 1
    /\ trace[3].calls = <<"MarshalCell", "MarshalText", "builtin">>
    /\ out.data.rows[1][3] = <<"-", "1">>

(***************************************************************************)
(* C10  Abort on first error.  When row k is the first row that fails      *)
(* (wrong length, sentinel on a non-pointer field, parse or codec error),  *)
(* UnmarshalWithOptions returns an error, appends nothing for row k or a   *)
(* later row, takes no later row, and the records of the rows before k     *)
(* stay in the target.                                                     *)
(***************************************************************************)
RowFails(row) ==
    \/ Len(row) # Len(hdr.names)
    \/ unmarshalRow(T, r, row, ZeroRec(T)).err # ""

AbortOnFirstError ==
    (Decoding /\ i >= 1) =>
        /\ err # "" <=> RowFails(data[i])
        /\ \A j \in 1..(i - 1) : ~RowFails(data[j])
        /\ err # "" =>
              /\ pc = "done"
              /\ Len(Appended) = i - 1
              /\ api = "Unmarshal" => Len(data) = i
        /\ err = "" => Len(Appended) = i
        /\ \A j \in 1..Len(Appended) :
              Appended[j] = unmarshalRow(T, r, data[j], ZeroRec(T)).rec

\* the second row failed and the record of the first is still there
AbortOnFirstErrorWitness ==
    /\ api = "Unmarshal"
    /\ pc = "done"
    /\ err = "parse"
    /\ i = 2
    /\ n = 2
    /\ Len(Appended) = 1

(***************************************************************************)
(* C11  Decode order and count.  While every row decodes, the slice is the *)
(* elements it held at the call, unchanged, followed by one record per row *)
(* taken so far, in the order of the rows: the k-th of them is the decode  *)
(* of the k-th row.  At the return all n rows have been taken.             *)
(***************************************************************************)
DecodeOrder ==
    (api = "Unmarshal" /\ vkind = PtrToSlice /\ err = "" /\ pc \in {"unmarshal", "done"}) =>
        /\ Len(data) = i
        /\ Len(target) = Len(old) + i
        /\ SubSeq(target, 1, Len(old)) = old
        /\ \A k \in 1..i :
              target[Len(old) + k] = unmarshalRow(T, r, data[k], ZeroRec(T)).rec
        /\ pc = "done" => i = n

\* two different rows were decoded into a slice that held an element
DecodeOrderWitness ==
    /\ api = "Unmarshal" /\ pc = "done" /\ err = ""
    /\ old # <<>> /\ n = 2 /\ Len(target) = 3
    /\ data[1] # data[2]
    /\ target[2] # target[3] /\ target[1] = old[1]

(***************************************************************************)
(* C12  Partial schema.  On decode a column whose header name is not a tag *)
(* of the shape is passed over: no conversion is invoked for its cell and  *)
(* it causes no error, whatever the cell is.  A field whose tag is mapped  *)
(* but names no column of the header keeps its zero value in every record  *)
(* the call appends, and its absence causes no error.                      *)
(***************************************************************************)
PartialSchemaAt(id) ==
    (Decoding /\ T = id /\ i >= 1 /\ ~hdr.isNil /\ Len(data[i]) = Len(hdr.names)) =>
        /\ \A c \in 1..Len(trace) :
              r.header[c] \notin Range(DeclTags(T)) =>
                  (~trace[c].mapped /\ trace[c].calls = <<>>)
        /\ err # "" =>
              /\ trace # <<>>
              /\ r.header[Len(trace)] \in Range(DeclTags(T))
        /\ (err = "" /\ \A c \in 1..Len(r.header) : r.header[c] \notin Range(DeclTags(T)))
              => Appended[Len(Appended)] = ZeroRec(T)
        /\ \A p \in LeafPaths(T) :
              (FieldTag(T, p) \in Range(DeclTags(T)) /\ FieldTag(T, p) \notin Range(r.header))
                  => \A k \in 1..Len(Appended) : Appended[k][p] = ZeroVal(FieldType(T, p))

PartialSchema == \A id \in ShapeIds : PartialSchemaAt(id)

(***************************************************************************)
(* C13  Empty encode.  MarshalWithOptions on an empty slice returns a nil  *)
(* header, nil rows and no error, and builds no row.                       *)
(***************************************************************************)
EmptyEncode ==
    (api = "Marshal" /\ pc \in {"done", "mdone"} /\ v = <<>>) =>
        /\ out.header.isNil /\ out.header.names = <<>>
        /\ out.data.isNil /\ out.data.rows = <<>>
        /\ err = ""
        /\ rows = <<>>

\* an empty slice of a struct type with mapped fields was encoded
EmptyEncodeWitness ==
    /\ api = "Marshal" /\ pc = "done" /\ v = <<>>
    /\ T.name = "User" /\ ~opts.isNil
    /\ out = NoOut

(***************************************************************************)
(* C14  Target validation.  When v is not a non-nil pointer to a slice of  *)
(* structs (a slice passed by value, a nil pointer, a pointer to a struct, *)
(* a pointer to a slice of pointers), UnmarshalWithOptions returns the     *)
(* error of the check that rejects it, takes and decodes no row, builds no *)
(* row handler and leaves what v holds as it was.                          *)
(***************************************************************************)
TargetValidation ==
    (api = "Unmarshal" /\ vkind \in BadTargets) =>
        /\ pc = "done"
        /\ err = (IF vkind \in {"[]T", "nil *[]T"}
                   THEN "v must be a non-nil pointer to a slice"
                   ELSE IF vkind = "*T" THEN "v must be a pointer to a slice"
                   ELSE "slice elements must be structs")
        /\ i = 0 /\ data = <<>> /\ trace = <<>>
        /\ r = NoRow
        /\ target = old

\* a slice of pointers that held an element was handed in with two rows
TargetValidationWitness ==
    /\ api = "Unmarshal" /\ pc = "done"
    /\ vkind = "*[]*T" /\ err = "slice elements must be structs"
    /\ n = 2 /\ old # <<>> /\ target = old

(***************************************************************************)
(* C16  Streaming read protocol.  For a Reader over a stream of a header h *)
(* and n data rows that all decode: the header is read once, by the first  *)
(* call, and the handler built from it serves every call; call k <= n      *)
(* returns the record decoded from the k-th data row under h; every call   *)
(* after the n-th returns io.EOF and no record.                            *)
(***************************************************************************)
ReadProtocol ==
    (api = "Reader" /\ reader.R.total >= 1 /\ i >= 1
        /\ \A j \in 1..Len(data) : ~RowFails(data[j]))
    => /\ ~hdr.isNil
       /\ ~reader.handler.isNil
       /\ reader.handler.row = newRow(T, hdr, opts)
       /\ reader.R.pos = 1 + Len(data)
       /\ IF i <= n
          THEN /\ Len(data) = i
               /\ err = ""
               /\ ~reader.result.isNil
               /\ reader.result.rec = unmarshalRow(T, newRow(T, hdr, opts), data[i], ZeroRec(T)).rec
          ELSE /\ Len(data) = n
               /\ err = "EOF"
               /\ reader.result.isNil

\* two different rows were read and decoded, and the third call met the end
ReadProtocolWitness ==
    /\ api = "Reader" /\ n = 2 /\ i = 3
    /\ Len(data) = 2 /\ data[1] # data[2]
    /\ \A j \in 1..2 : ~RowFails(data[j])
    /\ err = "EOF" /\ reader.result.isNil /\ reader.R.pos = 3

(***************************************************************************)
(* C17  Streaming write protocol.  After k >= 1 calls of Write on a fresh  *)
(* Writer that all succeeded, the records handed to the csv.Writer are the *)
(* header, once and first, then the encoded rows of the k records in the   *)
(* order of the calls.  The header is the resolved tag order of T, which   *)
(* for a shape without tag collisions is the declaration order.            *)
(***************************************************************************)
WriteProtocol ==
    (api = "Writer" /\ v # <<>> /\ ~writer.W.failed) =>
        LET ot == getFieldMap(T).orderedTags
            recs == writer.W.records
        IN  /\ err = ""
            /\ Len(recs) = 1 + Len(v)
            /\ recs[1] = ot
            /\ NoCollisions(T) => recs[1] = DeclTags(T)
            /\ \A k \in 1..Len(v) :
                  recs[1 + k] = marshalRow(T, newRow(T, Hdr(ot), opts), v[k]).row

\* two different records were written
WriteProtocolWitness ==
    /\ api = "Writer" /\ Len(v) = 2 /\ ~writer.W.failed /\ err = ""
    /\ v[1] # v[2]
    /\ Len(writer.W.records) = 3
    /\ writer.W.records[2] # writer.W.records[3]

(***************************************************************************)
(* C15  Options.  Whatever was called with nil Options (MarshalWithOptions, *)
(* UnmarshalWithOptions, or NewRowHandler through a Reader or a Writer)    *)
(* has worked as with Options{NilValue: "\N"}: the row handler is the one  *)
(* built with the default Options, every row built is the encoding under   *)
(* them, every record appended or returned is the decoding under them, and *)
(* so is the error of the last row.  The Options the caller passed are     *)
(* never changed by a step of a call.                                      *)
(***************************************************************************)
NilOptionsAsDefault ==
    opts.isNil =>
        LET d == newRow(T, IF api = "Writer" THEN Hdr(getFieldMap(T).orderedTags)
                           ELSE IF api = "ReEncode" /\ pc # "done" THEN NilHeader ELSE hdr,
                        DefaultOptions)
        IN  /\ r # NoRow => (r = d /\ r.opts.NilValue = <<"\\", "N">>)
            /\ pc \in {"marshal", "mdone"} =>
                  \A k \in 1..Len(rows) : rows[k] = marshalRow(T, d, v[k]).row
            /\ api = "Writer" =>
                  \A k \in 2..Len(writer.W.records) :
                      writer.W.records[k] = marshalRow(T, d, v[k - 1]).row
            /\ (Decoding /\ vkind = PtrToSlice) =>
                  /\ \A k \in 1..Len(Appended) :
                        Appended[k] = unmarshalRow(T, d, data[k], ZeroRec(T)).rec
                  /\ (i >= 1 /\ Len(data[i]) = Len(hdr.names)) =>
                        err = unmarshalRow(T, d, data[i], ZeroRec(T)).err
            /\ (api = "Reader" /\ ~reader.result.isNil) =>
                  reader.result.rec = unmarshalRow(T, d, data[Len(data)], ZeroRec(T)).rec

OptionsRule ==
    /\ []NilOptionsAsDefault
    /\ [][api # "none" => opts' = opts]_vars

\* nil Options: a nil pointer was written as \N and read back as nil
OptionsRuleWitness ==
    /\ opts.isNil /\ api = "RoundTrip" /\ pc = "done" /\ err = ""
    /\ T.name = "NilValueT"
    /\ v[1][<<0>>].nil /\ rows[1][1] = <<"\\", "N">> /\ target[1][<<0>>].nil

(***************************************************************************)
(* C18  Re-encode identity.  For a shape whose mapped leaf fields are      *)
(* strings and integers and a header equal to its resolved tag order, rows *)
(* that decode without error into an empty slice and are then encoded      *)
(* again give the same header and the same rows.                           *)
(***************************************************************************)
StringsAndInts(id) ==
    \A p \in LeafPaths(id) :
        FieldTag(id, p) \in Range(DeclTags(id)) =>
            (~FieldType(id, p).ptr /\ FieldType(id, p).kind \in {"string", "int", "int8", "uint8"})

ReEncodeIdentity ==
    (api = "ReEncode" /\ pc = "mdone" /\ data # <<>>
        /\ StringsAndInts(T) /\ hdr = Hdr(getFieldMap(T).orderedTags))
    => (out.header = hdr /\ out.data.rows = data)

Unsupported(typ) ==
    /\ typ.kind \notin {"string", "int", "int8", "uint8", "bool"}
    /\ ~ImplementsCell(typ.kind) /\ ~ImplementsText(typ.kind)

UnsupportedType ==
    ((Decoding \/ api = "Reader") /\ trace # <<>>) =>
        LET row == data[Len(data)]
        IN  \A c \in 1..Len(trace) :
                (trace[c].mapped /\ Unsupported(FieldType(T, trace[c].path))
                                /\ row[c] # r.opts.NilValue)
                => /\ c = Len(trace)
                   /\ err = "unsupported field type"
                   /\ trace[c].val = ZeroVal(FieldType(T, trace[c].path))
                   /\ Decoding => (pc = "done" /\ Len(Appended) = i - 1)
                   /\ api = "Reader" => reader.result.isNil

\* the first of two rows met a slice field; the slice held an element
UnsupportedTypeWitness ==
    /\ api = "Unmarshal" /\ pc = "done" /\ T.name = "Other"
    /\ err = "unsupported field type"
    /\ i = 1 /\ n = 2 /\ old # <<>> /\ target = old
    /\ trace # <<>> /\ trace[Len(trace)].mapped
    /\ FieldType(T, trace[Len(trace)].path).kind = "slice"

(***************************************************************************)
(* C21  Later declaration wins.  As claimed: of the leaf fields that carry *)
(* one tag, the one the walk reaches last, direct or embedded, is the      *)
(* field the tag maps to, and the tag stands in orderedTags where that     *)
(* field stands among the fields the other tags map to.  (Read off the     *)
(* result of getFieldMap when the walk is over and when it has returned.)  *)
(***************************************************************************)
LeavesWithTag(id, t) == {p \in LeafPaths(id) : FieldTag(id, p) = t}

LastLeaf(id, S) == CHOOSE p \in S : \A q \in S : DeclOrd(id, q) <= DeclOrd(id, p)

FirstLeaf(id, S) == CHOOSE p \in S : \A q \in S : DeclOrd(id, p) <= DeclOrd(id, q)

\* the tags that two or more leaf fields of the shape carry
Collisions(id) ==
    {t \in Range(DeclTags(id)) : Cardinality(LeavesWithTag(id, t)) >= 2}

\* a is before b in the sequence s
Before(s, a, b) == ColumnOf(s, a) < ColumnOf(s, b)

DirectLeaves(id, t) == {p \in LeavesWithTag(id, t) : Len(p) = 1}

\* the field that declares a tag once the rules of lines 536-554 are applied
Declaring(id, t) ==
    IF DirectLeaves(id, t) # {} THEN LastLeaf(id, DirectLeaves(id, t))
    ELSE FirstLeaf(id, LeavesWithTag(id, t))

AtEmbeddedRepeat(w) ==
    /\ w.stack # <<>>
    /\ LET fr == w.stack[Len(w.stack)]
       IN  /\ fr.i < Len(fr.t)
           /\ fr.isEmbedded
           /\ ~IsEmbeddedStruct(fr.t[fr.i + 1])
           /\ ~IsSkippedTag(fr.t[fr.i + 1].tag)
           /\ hasTag(w.orderedTags, fr.t[fr.i + 1].tag)

EmbeddedSkipAt(id) ==
    (pc = "walk" /\ T = id /\ AtEmbeddedRepeat(wk)) =>
        /\ FieldMapOf(wk').fields = FieldMapOf(wk).fields
        /\ FieldMapOf(wk').orderedTags = FieldMapOf(wk).orderedTags

EmbeddedSkip == [][\A id \in ShapeIds : EmbeddedSkipAt(id)]_vars

(***************************************************************************)
(* C23  Access-path correctness.  At every point of the walk and ever      *)
(* after, the access path stored for a tag is the index path of a leaf     *)
(* field that declares that tag, and two tags never have the same path; at *)
(* the end of the walk it is the path of the field that declares the tag   *)
(* under the rules of the walk.  An iteration of the walk changes no path  *)
(* but the one it stores.                                                  *)
(***************************************************************************)
PathsDeclareTags(w) ==
    \A t \in DOMAIN w.fields :
        LET path == Deref(w.heap, w.fields[t].index)
        IN  /\ path \in LeafPaths(T)
            /\ FieldTag(T, path) = t
            /\ \A u \in DOMAIN w.fields :
                  Deref(w.heap, w.fields[u].index) = path => u = t

StoredPathsKept ==
    pc = "walk" =>
        \A t \in DOMAIN wk.fields :
            (t \in DOMAIN wk'.fields /\ wk'.fields[t] = wk.fields[t])
                => Deref(wk'.heap, wk'.fields[t].index) = Deref(wk.heap, wk.fields[t].index)

AccessPathsAt(id) ==
    T = id =>
        /\ PathsDeclareTags(wk)
        /\ wk.stack = <<>> =>
              \A t \in DOMAIN wk.fields : FieldMapOf(wk).fields[t] = Declaring(T, t)

AccessPaths ==
    /\ [](\A id \in ShapeIds : AccessPathsAt(id))
    /\ [][StoredPathsKept]_vars

(***************************************************************************)
(* C24  Duplicate header names.  When a tag of the shape names several     *)
(* columns of the header and the row decodes, the field that declares the  *)
(* tag holds, in the record appended for the row, the decode of the cell   *)
(* of the last of those columns: nil when that cell is the nil sentinel    *)
(* or, the field being a pointer, the empty cell.  (Stated for the field   *)
(* types whose decode is determined by the cell: CustomType.UnmarshalCell  *)
(* keeps the value it finds when the cell has no "custom:" prefix, so that *)
(* such a cell has no decode of its own.)                                  *)
(***************************************************************************)
ColumnsOf(names, t) == {c \in 1..Len(names) : names[c] = t}

LastOf(S) == CHOOSE c \in S : \A d \in S : d <= c

CellDeterminedKinds ==
    {"string", "int", "int8", "uint8", "bool", "slice", "time", "both", "cellonly"}

DuplicateHeaderAt(id) ==
    (Decoding /\ T = id /\ i >= 1 /\ err = "" /\ Len(Appended) = i) =>
        \A t \in Range(DeclTags(T)) :
            LET cols == ColumnsOf(r.header, t)
                p == Declaring(T, t)
                typ == FieldType(T, p)
            IN  (Cardinality(cols) >= 2 /\ typ.kind \in CellDeterminedKinds) =>
                    Appended[i][p] = setField(typ, ZeroVal(typ), data[i][LastOf(cols)], r.opts).val

DuplicateHeader == \A id \in ShapeIds : DuplicateHeaderAt(id)

(***************************************************************************)
(* C25  Empty cell for an optional field.  Under a NilValue that is not    *)
(* empty, the empty cell sets a pointer field to nil with no codec and no  *)
(* parse invoked, and causes no error.  A cell that is neither empty nor   *)
(* the sentinel leaves the pointer non-nil and is decoded into the value   *)
(* pointed to by the tier of the element type: the cell codec, else the    *)
(* text codec, else the built-in conversion.                               *)
(***************************************************************************)
TierCall(kind) ==
    IF ImplementsCell(kind) THEN "UnmarshalCell"
    ELSE IF ImplementsText(kind) THEN "UnmarshalText"
    ELSE "builtin"

OptionalEmptyCell ==
    (Decoding /\ i >= 1 /\ r.opts.NilValue # <<>>) =>
        \A k \in 1..Len(trace) :
            LET ev == trace[k]
                cell == data[i][ev.col]
                typ == FieldType(T, ev.path)
                first == \A c \in 1..(ev.col - 1) : r.header[c] # r.header[ev.col]
            IN  (ev.mapped /\ typ.ptr) =>
                    /\ cell = <<>> =>
                          /\ ev.val.nil
                          /\ ev.calls = <<>>
                          /\ k = Len(trace) => err = ""
                    /\ (cell # <<>> /\ cell # r.opts.NilValue) =>
                          /\ ~ev.val.nil
                          /\ ev.calls = <<TierCall(typ.kind)>>
                          /\ first => ev.val = SetValue(typ.kind, ZeroVal(Elem(typ)), cell).val
                          /\ k = Len(trace) =>
                                err = SetValue(typ.kind, ZeroVal(Elem(typ)), cell).err

\* under the sentinel \N, one row held the empty cell for the *int field
\* and a number for it in the column that names the field again
OptionalEmptyCellWitness ==
    /\ api = "Unmarshal" /\ pc = "done" /\ err = "" /\ i = 1
    /\ T.name = "NilValueT"
    /\ r.opts.NilValue = DefaultNilValue
    /\ Len(r.header) = 5 /\ r.header[1] = "int" /\ r.header[5] = "int"
    /\ data[1][1] = <<>> /\ trace[1].val.nil /\ trace[1].calls = <<>>
    /\ data[1][5] = <<"1", "5">> /\ trace[5].val.i = 15 /\ ~Appended[1][<<0>>].nil

(***************************************************************************)
(* C26  Row encode column order.  As claimed: whatever header the          *)
(* RowHandler was constructed with, MarshalRow returns one cell per tag of *)
(* orderedTags, in that order, each the encoding of the field the tag is   *)
(* mapped to.                                                              *)
(***************************************************************************)
\* the encoding of the field the resolved fieldMap maps a name to
EncodedField(id, name, rec, o) ==
    LET path == getFieldMap(id).fields[name]
    IN  formatField(FieldType(id, path), rec[path], EffectiveOptions(o)).cell

RowEncodeOrder ==
    (api = "RowHandler" /\ pc = "rowdone") =>
        LET ot == getFieldMap(T).orderedTags
        IN  /\ Len(rows[1]) = Len(ot)
            /\ \A k \in 1..Len(ot) : rows[1][k] = EncodedField(T, ot[k], v[1], opts)

(***************************************************************************)
(* C26 as amended.  MarshalRow returns one cell per name of the header of  *)
(* the handler, in the order of that header: the encoding of the field the *)
(* name is mapped to or, for a name that is no tag of the shape, the empty *)
(* cell.  The header of the handler is the one it was constructed with,    *)
(* and orderedTags when that was nil: only then, or with a header equal to *)
(* orderedTags, is the row the one of the claim.                           *)
(***************************************************************************)
RowEncodeHeaderOrder ==
    (api = "RowHandler" /\ pc = "rowdone") =>
        LET fm == getFieldMap(T)
            names == IF hdr.isNil THEN fm.orderedTags ELSE hdr.names
        IN  /\ err = ""
            /\ Len(rows[1]) = Len(names)
            /\ \A k \in 1..Len(names) :
                  rows[1][k] = (IF names[k] \in DOMAIN fm.fields
                                THEN EncodedField(T, names[k], v[1], opts)
                                ELSE <<>>)
            /\ (hdr.isNil \/ hdr.names = fm.orderedTags) =>
                  /\ Len(rows[1]) = Len(fm.orderedTags)
                  /\ \A k \in 1..Len(fm.orderedTags) :
                        rows[1][k] = EncodedField(T, fm.orderedTags[k], v[1], opts)

\* a handler whose header is the tags in reverse and an unknown name gave
\* the cells in that order, with an empty cell last
RowEncodeHeaderOrderWitness ==
    /\ api = "RowHandler" /\ pc = "rowdone"
    /\ T.name = "User"
    /\ hdr.names = <<"age", "name", "zz">>
    /\ v[1] = BaseRec(T)
    /\ rows[1] = << <<"1", "2">>, <<"a">>, <<>> >>

\* C27: ReadAll on a stream with no header row, in the method and in the
\* function form, completes and returns an end-of-input error and no records
EmptyReadAll ==
    (api \in {"ReadAll", "ReadAllFunc"} /\ StreamRecords = <<>>)
        => (pc = "done" /\ err = "EOF" /\ target = <<>>)

(***************************************************************************)
(* C28  Integer width.  A base-10 integer cell decoded into an integer     *)
(* field by the built-in conversion either stores exactly the number the   *)
(* cell denotes or makes the decode fail with an error: a number outside   *)
(* the range of the field is never stored wrapped modulo 2^w.              *)
(***************************************************************************)
BuiltinIntKinds == {"int", "int8", "uint8"}

IntegerWidth ==
    (Decoding /\ i >= 1) =>
        \A k \in 1..Len(trace) :
            LET ev == trace[k]
                cell == data[i][ev.col]
                typ == FieldType(T, ev.path)
            IN  (/\ ev.mapped
                 /\ typ.kind \in BuiltinIntKinds
                 /\ ev.calls = <<"builtin">>
                 /\ ParseInt(cell).ok) =>
                    \/ ev.val.i = ParseInt(cell).v
                    \/ k = Len(trace) /\ err # ""

(***************************************************************************)
(* C29  Streaming and batch reads agree.  For a stream of a header and     *)
(* data rows that all decode, the slice Reader.ReadAll returns on a fresh  *)
(* Reader is, element by element and in order, the sequence of the records *)
(* that Read returned on another fresh Reader over the same stream until   *)
(* io.EOF.                                                                 *)
(***************************************************************************)
StreamBatchAgree ==
    (/\ api = "ReadAll"
     /\ StreamRecords # <<>>
     /\ \A j \in 1..Len(data) : ~RowFails(data[j]))
    => /\ pc = "done"
       /\ err = ""
       /\ Len(got) = Len(data)
       /\ target = got

\* two different rows were read one by one and then in one batch
StreamBatchAgreeWitness ==
    /\ api = "ReadAll" /\ pc = "done" /\ err = ""
    /\ Len(data) = 2 /\ data[1] # data[2]
    /\ Len(got) = 2 /\ got[1] # got[2]
    /\ target = got

(***************************************************************************)
(* C30  Single header per Writer.  Whatever calls of Write and WriteAll a  *)
(* Writer has served, among the records its csv.Writer took the header of  *)
(* T occurs at most once, every data row has the header before it, and no  *)
(* header comes after a data row or after another header.                  *)
(***************************************************************************)
SingleHeader ==
    pc = "writing" =>
        \A k \in 1..Len(emitted) :
            /\ emitted[k] = "header" =>
                  /\ writer.W.records[k] = getFieldMap(T).orderedTags
                  /\ \A j \in 1..(k - 1) : emitted[j] = "empty"
            /\ emitted[k] = "row" =>
                  \E j \in 1..(k - 1) : emitted[j] = "header"

====
